---- MODULE Spec2Model ----
(***************************************************************************)
(* OxideTerm remote-agent transport (src-tauri/src/agent/transport.rs).    *)
(*                                                                         *)
(* One AgentTransport: the callers of call_with_timeout, shutdown(), the   *)
(* takers of the watch receiver, the spawned IO task that owns the SSH     *)
(* exec channel, and the remote side, which may put any line on stdout at  *)
(* any time.                                                               *)
(***************************************************************************)
EXTENDS Integers, Sequences, FiniteSets, TLC

\* ---------------------------------------------------------------- bounds
\* Invocations of call_with_timeout, one per caller 1..MaxCalls; one of them may
\* be the sys/shutdown call made inside shutdown().
MaxCalls == 2
\* Complete lines carried by one ChannelMsg::Data event.
MaxLines == 2
\* watch/event notifications the remote side sends.
MaxEvents == 2
\* Concurrent invocations of take_watch_rx.
MaxTakers == 2
\* Capacity of the outgoing queue (256 in the source, scaled down).
WriteCap == 1
\* Capacity of the watch queue (1024 in the source, scaled down).
WatchCap == 1
\* Number of stdout bytes the remote side sends to the line buffer.
MaxBytes == 4
\* Number of frames the peer of the codec encodes.
MaxFrames == 2
\* Longest run of arbitrary bytes fed to the codec.
MaxRaw == 6
\* Number of interval ticks the sampling loop is followed for.
MaxTicks == 5
\* Largest transition count the session state machine is followed to.
MaxTransitions == 4

\* ------------------------------------------------------ program constants
ERR_INTERNAL == -32603
ERR_NOT_FOUND == -2
HEADER_SIZE == 5
MAX_PAYLOAD_SIZE == 16777216
MAX_CONSECUTIVE_FAILURES == 3
SSH_PORT == 22
LF == 10

Calls == 1..MaxCalls
\* Ids a response line may carry: those the callers can draw and one never issued.
Ids == 1..(MaxCalls + 1)
Takers == 1..MaxTakers

VARIABLES
    alive,        \* AgentTransport.alive (shared AtomicBool)
    nextId,       \* the process-wide request-id counter
    pending,      \* PendingMap: request id -> the call whose oneshot sender it holds
    pc,           \* per call: position inside call_with_timeout
    id,           \* per call: the request id it drew (0: none yet)
    slot,         \* per call: state of its oneshot channel
    outcome,      \* per call: what call_with_timeout returned
    write_q,      \* the mpsc queue write_tx -> write_rx (request ids, FIFO)
    written,      \* request lines written to the channel's stdin, in order
    ioPc,         \* position of the IO task
    rest,         \* complete lines of `buffer` not yet processed (IO task suspended in send)
    evCount,      \* watch/event notifications parsed so far
    watch_q,      \* the mpsc queue watch_tx -> watch_rx
    watch_rx,     \* which receiver the struct field watch_rx holds
    watch_taken,  \* AgentTransport.watch_taken
    takeRes,      \* per taker: what take_watch_rx returned
    received,     \* events the consumer has read from the receiver it took
    shutdown_q,   \* the mpsc queue shutdown_tx -> shutdown_rx (capacity 1)
    signalled,    \* shutdown() has passed its shutdown_tx.send
    fills,        \* per call: how often a value was put into its oneshot
    atDeath,      \* calls that were in the pending map when the IO task left its loop
    lastSkip,     \* how the IO task last dropped a stdout line: "unknownId", "junk"
    takenAt       \* evCount at the moment the watch receiver was taken

\* AgentDeployer::deploy_and_start (src-tauri/src/agent/deploy.rs), which builds
\* the transport and makes the first two calls on it.
VARIABLES
    dpc,          \* position inside deploy_and_start
    dlog,         \* the operations it has carried out, in order, each with its result
    arch,         \* the trimmed output of `uname -m`
    probeOut,     \* what the version probe returned
    infoValue,    \* the result value carried by the response to the sys/info call
    dres          \* what deploy_and_start returned

deployVars == <<dpc, dlog, arch, probeOut, infoValue, dres>>

\* SessionStateMachine (src-tauri/src/session/state.rs).
VARIABLES
    state,             \* SessionStateMachine.state
    error_message,     \* SessionStateMachine.error_message ("none": None)
    transition_count,  \* SessionStateMachine.transition_count
    sres               \* the operation last invoked and what it returned

sessionVars == <<state, error_message, transition_count, sres>>

\* FrameCodec (src-tauri/src/bridge/protocol.rs) and the byte stream of its peer.
VARIABLES
    buffer,       \* FrameCodec.buffer
    wire,         \* bytes the peer has encoded that were not fed to the codec yet
    sent,         \* the frames the peer has encoded, in order
    decoded,      \* the frames decode_next has returned, in order
    lastDecode    \* what the last decode_next returned and how many bytes it consumed

codecVars == <<buffer, wire, sent, decoded, lastDecode>>

\* ResourceProfiler and its sampling_loop (src-tauri/src/session/profiler.rs).
VARIABLES
    ppc,                   \* position of the sampling task
    pstate,                \* ResourceProfiler.state
    consecutive_failures,  \* sampling_loop's failure counter
    stop_sent,             \* stop() has sent on stop_tx
    disconnected,          \* the connection has broadcast its disconnect
    prev_ports,            \* port numbers of the last complete scan
    is_initial_scan,       \* no complete scan was seen yet
    ignored_ports,         \* ports the user dismissed
    lastSource,            \* MetricsSource of the metrics emitted last
    ticks,                 \* interval ticks handled so far
    eventCount,            \* port-detected events emitted so far
    lastEvent,             \* the last port-detected event
    sample_complete,       \* the last sample carried the end marker
    reopen_attempts        \* calls of open_shell_channel made inside the loop

profilerVars ==
    <<ppc, pstate, consecutive_failures, stop_sent, disconnected, prev_ports,
      is_initial_scan, ignored_ports, lastSource, ticks, eventCount, lastEvent,
      sample_complete, reopen_attempts>>

\* The IO task's stdout buffer, byte by byte (src-tauri/src/agent/transport.rs).
VARIABLES
    delivered,    \* the stdout bytes the channel has delivered, all Data events joined
    line_buffer,  \* the IO task's `buffer` (a String: its code points)
    extracted     \* the non-empty trimmed lines the while loop has handed to the parser

lineVars == <<delivered, line_buffer, extracted>>

\* The pending-map mutex, with taking and releasing it as steps of their own
\* (src-tauri/src/agent/transport.rs).
VARIABLES
    holder,       \* the tasks that hold the MutexGuard of `pending` (0: the IO task)
    mpc,          \* per call: position in call_with_timeout from the insert on
    mio,          \* position of the IO task
    mtarget,      \* the id of the response the IO task is handling
    mmap,         \* the ids in the pending map
    mgot          \* the calls whose oneshot has received a value

mutexVars == <<holder, mpc, mio, mtarget, mmap, mgot>>

\* The owner of a transport that deploy_and_start has returned.
VARIABLES
    dropped       \* the owner has dropped its AgentTransport

\* What the agent's transport and deployment leave alone.
besideAgent == <<sessionVars, codecVars, profilerVars, lineVars, mutexVars, dropped>>

vars == <<alive, nextId, pending, pc, id, slot, outcome, write_q, written, ioPc,
          rest, evCount, watch_q, watch_rx, watch_taken, takeRes, received,
          shutdown_q, signalled, fills, atDeath, lastSkip, takenAt,
          dpc, dlog, arch, probeOut, infoValue, dres,
          state, error_message, transition_count, sres,
          buffer, wire, sent, decoded, lastDecode,
          ppc, pstate, consecutive_failures, stop_sent, disconnected, prev_ports,
          is_initial_scan, ignored_ports, lastSource, ticks, eventCount, lastEvent,
          sample_complete, reopen_attempts,
          delivered, line_buffer, extracted,
          holder, mpc, mio, mtarget, mmap, mgot, dropped>>

callVars == <<pc, id, slot, outcome>>
watchVars == <<watch_q, watch_rx, watch_taken, takeRes, received>>

\* ------------------------------------------------------------ value shapes
\* A oneshot channel: nothing sent yet ("empty"), a value sent ("ok"/"err"),
\* the receiver dropped ("rxDropped"), the sender dropped unsent ("txDropped").
\* rid is the id of the response line the value came from (0: not a response).
EmptySlot == [st |-> "empty", code |-> 0, rid |-> 0]
RxDropped == [st |-> "rxDropped", code |-> 0, rid |-> 0]
TxDropped == [st |-> "txDropped", code |-> 0, rid |-> 0]
OkValue(r) == [st |-> "ok", code |-> 0, rid |-> r]
ErrValue(c, r) == [st |-> "err", code |-> c, rid |-> r]

\* The AgentRpcError the termination drain sends: ERR_INTERNAL, "Agent channel closed".
ClosedError == ErrValue(ERR_INTERNAL, 0)

NoOutcome == [kind |-> "none", code |-> 0, rid |-> 0, via |-> "none"]
Outcome(k, v, how) == [kind |-> k, code |-> v.code, rid |-> v.rid, via |-> how]

\* Lines the remote side can put on stdout. sh is the shape of a response:
\* which of result/error it carries.
RespLines == [t : {"resp"}, id : Ids, sh : {"result", "error", "both"}]
WatchLine == [t |-> "watch", id |-> 0, sh |-> "-"]
JunkKinds == {"garbage", "empty", "notifOther", "notifBadParams"}
JunkLines == [t : JunkKinds, id : {0}, sh : {"-"}]

SeqsUpTo(S, n) == UNION {[1..k -> S] : k \in 0..n}

\* ------------------------------------------------------------- map helpers
MapRemove(m, k) == [i \in DOMAIN m \ {k} |-> m[i]]
MapInsert(m, k, v) == [i \in DOMAIN m \cup {k} |-> IF i = k THEN v ELSE m[i]]
EmptyMap == [i \in {} |-> 0]

Init ==
    /\ alive = TRUE
    /\ nextId = 1
    /\ pending = EmptyMap
    /\ pc = [c \in Calls |-> "idle"]
    /\ id = [c \in Calls |-> 0]
    /\ slot = [c \in Calls |-> EmptySlot]
    /\ outcome = [c \in Calls |-> NoOutcome]
    /\ write_q = <<>>
    /\ written = <<>>
    /\ ioPc = "loop"
    /\ rest = <<>>
    /\ evCount = 0
    /\ watch_q = <<>>
    /\ watch_rx = "live"
    /\ watch_taken = FALSE
    /\ takeRes = [t \in Takers |-> "-"]
    /\ received = <<>>
    /\ shutdown_q = 0
    /\ signalled = FALSE
    /\ fills = [c \in Calls |-> 0]
    /\ atDeath = {}
    /\ lastSkip = "none"
    /\ takenAt = 0
    /\ dpc = "detect"
    /\ dlog = <<>>
    /\ arch = <<>>
    /\ probeOut = "-"
    /\ infoValue = "-"
    /\ dres = [kind |-> "none", identity |-> "-", transport |-> FALSE]
    /\ state = "Disconnected"
    /\ error_message = "none"
    /\ transition_count = 0
    /\ sres = [op |-> "new", result |-> "Ok", from |-> "Disconnected", to |-> "Disconnected"]
    /\ buffer = <<>>
    /\ wire = <<>>
    /\ sent = <<>>
    /\ decoded = <<>>
    /\ lastDecode = [res |-> "-", consumed |-> 0]
    /\ ppc = "opening"
    /\ pstate = "Running"
    /\ consecutive_failures = 0
    /\ stop_sent = FALSE
    /\ disconnected = FALSE
    /\ prev_ports = {}
    /\ is_initial_scan = TRUE
    /\ ignored_ports = {}
    /\ lastSource = "none"
    /\ ticks = 0
    /\ eventCount = 0
    /\ lastEvent = [new_ports |-> {}, closed_ports |-> {}, all_ports |-> {}]
    /\ sample_complete = FALSE
    /\ reopen_attempts = 0
    /\ delivered = <<>>
    /\ line_buffer = <<>>
    /\ extracted = <<>>
    /\ holder = {}
    /\ mpc = [c \in Calls |-> "start"]
    /\ mio = "loop"
    /\ mtarget = 0
    /\ mmap = {}
    /\ mgot = {}
    /\ dropped = FALSE

\* ------------------------------------------------------------ request ids
\* next_request_id(): an atomic fetch-and-add on the process-wide counter.
\* ret is the id handed out, next the counter afterwards.
NextRequestId(counter) == [ret |-> counter, next |-> counter + 1]

\* ------------------------------------------------------- call_with_timeout
Finish(c, k, v, how) ==
    /\ pc' = [pc EXCEPT ![c] = "done"]
    /\ outcome' = [outcome EXCEPT ![c] = Outcome(k, v, how)]

\* The sender stored under key k is dropped without a value having been sent:
\* the call it belongs to, if still listening, sees its oneshot closed.
DropSender(sl, m, k, except) ==
    IF k \in DOMAIN m /\ m[k] # except /\ sl[m[k]].st = "empty"
    THEN [sl EXCEPT ![m[k]] = TxDropped]
    ELSE sl

\* Mutant: call_with_timeout without the is_alive() check.
CallPrepareNoAliveCheck(c, serOk) ==
    /\ pc[c] = "idle"
    /\ IF c = 1 THEN TRUE ELSE pc[c - 1] # "idle"
    /\ id' = [id EXCEPT ![c] = NextRequestId(nextId).ret]
    /\ nextId' = NextRequestId(nextId).next
    /\ IF serOk
       THEN pc' = [pc EXCEPT ![c] = "prepared"] /\ UNCHANGED outcome
       ELSE Finish(c, "SerializeError", EmptySlot, "serialize")
    /\ UNCHANGED <<alive, pending, slot, write_q, written, ioPc, rest, evCount, watchVars,
                   shutdown_q, signalled, fills, atDeath, lastSkip, takenAt, deployVars, besideAgent>>

\* Mutant: the pending entry is registered before the request is serialized.
CallPrepareInsertsFirst(c, serOk) ==
    /\ pc[c] = "idle"
    /\ IF c = 1 THEN TRUE ELSE pc[c - 1] # "idle"
    /\ IF ~alive
       THEN /\ Finish(c, "NotConnected", EmptySlot, "precheck")
            /\ UNCHANGED <<nextId, id, pending>>
       ELSE /\ id' = [id EXCEPT ![c] = NextRequestId(nextId).ret]
            /\ nextId' = NextRequestId(nextId).next
            /\ IF serOk
               THEN pc' = [pc EXCEPT ![c] = "prepared"] /\ UNCHANGED <<outcome, pending>>
               ELSE /\ Finish(c, "SerializeError", EmptySlot, "serialize")
                    /\ pending' = MapInsert(pending, NextRequestId(nextId).ret, c)
    /\ UNCHANGED <<alive, slot, write_q, written, ioPc, rest, evCount, watchVars,
                   shutdown_q, signalled, fills, atDeath, lastSkip, takenAt, deployVars, besideAgent>>

\* Mutant: the id is read from the counter without advancing it.
CallPrepareReusesId(c, serOk) ==
    /\ pc[c] = "idle"
    /\ IF c = 1 THEN TRUE ELSE pc[c - 1] # "idle"
    /\ IF ~alive
       THEN /\ Finish(c, "NotConnected", EmptySlot, "precheck")
            /\ UNCHANGED id
       ELSE /\ id' = [id EXCEPT ![c] = NextRequestId(nextId).ret]
            /\ IF serOk
               THEN pc' = [pc EXCEPT ![c] = "prepared"] /\ UNCHANGED outcome
               ELSE Finish(c, "SerializeError", EmptySlot, "serialize")
    /\ UNCHANGED <<alive, nextId, pending, slot, write_q, written, ioPc, rest, evCount,
                   watchVars, shutdown_q, signalled, fills, atDeath, lastSkip, takenAt, deployVars, besideAgent>>

\* The is_alive() check, the id, the request and its serialization. Callers are
\* interchangeable, so they start in the order of their numbers.
CallPrepare(c, serOk) ==
    /\ pc[c] = "idle"
    /\ IF c = 1 THEN TRUE ELSE pc[c - 1] # "idle"
    /\ IF ~alive
       THEN /\ Finish(c, "NotConnected", EmptySlot, "precheck")
            /\ UNCHANGED <<nextId, id>>
       ELSE /\ id' = [id EXCEPT ![c] = NextRequestId(nextId).ret]
            /\ nextId' = NextRequestId(nextId).next
            /\ IF serOk
               THEN pc' = [pc EXCEPT ![c] = "prepared"] /\ UNCHANGED outcome
               ELSE Finish(c, "SerializeError", EmptySlot, "serialize")
    /\ UNCHANGED <<alive, pending, slot, write_q, written, ioPc, rest, evCount, watchVars,
                   shutdown_q, signalled, fills, atDeath, lastSkip, takenAt, deployVars, besideAgent>>

\* Mutant: the call goes on to the queue without having registered its sender.
InsertPendingSkipped(c) ==
    /\ pc[c] = "prepared"
    /\ pc' = [pc EXCEPT ![c] = "inserted"]
    /\ UNCHANGED <<alive, nextId, pending, slot, id, outcome, write_q, written, ioPc, rest,
                   evCount, watchVars, shutdown_q, signalled, fills, atDeath, lastSkip,
                   takenAt, deployVars, besideAgent>>

\* oneshot::channel(), then pending.insert(id, tx) under the mutex. HashMap::insert
\* replaces an entry already stored under the key, dropping its sender.
InsertPending(c) ==
    /\ pc[c] = "prepared"
    /\ pending' = MapInsert(pending, id[c], c)
    /\ slot' = DropSender(slot, pending, id[c], c)
    /\ pc' = [pc EXCEPT ![c] = "inserted"]
    /\ UNCHANGED <<alive, nextId, id, outcome, write_q, written, ioPc, rest, evCount, watchVars,
                   shutdown_q, signalled, fills, atDeath, lastSkip, takenAt, deployVars, besideAgent>>

\* write_tx.send(json).await: fails once write_rx is dropped (the IO task has
\* ended), suspends while the queue is full.
\* Mutant: the line is offered with try_send and lost when the queue is full.
EnqueueTrySend(c) ==
    /\ pc[c] = "inserted"
    /\ IF ioPc = "ended"
       THEN /\ Finish(c, "ChannelClosed", EmptySlot, "enqueue")
            /\ UNCHANGED write_q
       ELSE /\ write_q' = IF Len(write_q) < WriteCap THEN Append(write_q, id[c]) ELSE write_q
            /\ pc' = [pc EXCEPT ![c] = "waiting"]
            /\ UNCHANGED outcome
    /\ UNCHANGED <<alive, nextId, pending, id, slot, written, ioPc, rest, evCount, watchVars,
                   shutdown_q, signalled, fills, atDeath, lastSkip, takenAt, deployVars, besideAgent>>

Enqueue(c) ==
    /\ pc[c] = "inserted"
    /\ IF ioPc = "ended"
       THEN /\ Finish(c, "ChannelClosed", EmptySlot, "enqueue")
            /\ UNCHANGED write_q
       ELSE /\ Len(write_q) < WriteCap
            /\ write_q' = Append(write_q, id[c])
            /\ pc' = [pc EXCEPT ![c] = "waiting"]
            /\ UNCHANGED outcome
    /\ UNCHANGED <<alive, nextId, pending, id, slot, written, ioPc, rest, evCount, watchVars,
                   shutdown_q, signalled, fills, atDeath, lastSkip, takenAt, deployVars, besideAgent>>

\* timeout(rx) completes with what the oneshot holds: Ok(Ok(Ok)), Ok(Ok(Err)) or
\* Ok(Err(RecvError)).
AwaitResult(c) ==
    /\ pc[c] = "waiting"
    /\ slot[c].st \in {"ok", "err", "txDropped"}
    /\ CASE slot[c].st = "ok" -> Finish(c, "Ok", slot[c], "slot")
         [] slot[c].st = "err" -> Finish(c, "RpcError", slot[c], "slot")
         [] OTHER -> Finish(c, "ChannelClosed", slot[c], "senderDropped")
    /\ UNCHANGED <<alive, nextId, pending, id, slot, write_q, written, ioPc, rest, evCount,
                   watchVars, shutdown_q, signalled, fills, atDeath, lastSkip, takenAt, deployVars, besideAgent>>

\* The timer wins: timeout(rx) completes with Err(Elapsed) and the receiver is
\* dropped with the future. The value is polled first, so this happens only while
\* the oneshot is empty.
TimeoutFires(c) ==
    /\ pc[c] = "waiting"
    /\ slot[c].st = "empty"
    /\ slot' = [slot EXCEPT ![c] = RxDropped]
    /\ pc' = [pc EXCEPT ![c] = "timedout"]
    /\ UNCHANGED <<alive, nextId, pending, id, outcome, write_q, written, ioPc, rest, evCount,
                   watchVars, shutdown_q, signalled, fills, atDeath, lastSkip, takenAt, deployVars, besideAgent>>

\* Mutant: the timeout arm returns without removing the pending entry.
TimeoutCleanupKeepsEntry(c) ==
    /\ pc[c] = "timedout"
    /\ Finish(c, "Timeout", EmptySlot, "timeout")
    /\ UNCHANGED <<alive, nextId, pending, id, slot, write_q, written, ioPc, rest, evCount,
                   watchVars, shutdown_q, signalled, fills, atDeath, lastSkip, takenAt, deployVars, besideAgent>>

\* The Err(_) arm: pending.remove(&id) under the mutex, then Timeout.
TimeoutCleanup(c) ==
    /\ pc[c] = "timedout"
    /\ pending' = MapRemove(pending, id[c])
    /\ slot' = DropSender(slot, pending, id[c], c)
    /\ Finish(c, "Timeout", EmptySlot, "timeout")
    /\ UNCHANGED <<alive, nextId, id, write_q, written, ioPc, rest, evCount, watchVars,
                   shutdown_q, signalled, fills, atDeath, lastSkip, takenAt, deployVars, besideAgent>>

\* shutdown(): after its sys/shutdown call returned, shutdown_tx.send(()).await,
\* whose error (receiver dropped) is ignored.
ShutdownSignal ==
    /\ \E c \in Calls : pc[c] = "done"
    /\ ~signalled
    /\ IF ioPc = "ended"
       THEN UNCHANGED shutdown_q
       ELSE shutdown_q = 0 /\ shutdown_q' = 1
    /\ signalled' = TRUE
    /\ UNCHANGED <<alive, nextId, pending, callVars, write_q, written, ioPc, rest, evCount,
                   watchVars, fills, atDeath, lastSkip, takenAt, deployVars, besideAgent>>

\* ------------------------------------------------------------- the IO task
\* serde_json::from_str::<AgentMessage>(&line): a line carrying an id and a
\* result or an error is a Response, one carrying a method and no id is a
\* Notification, anything else fails to parse.
ParseLine(line) ==
    CASE line.t = "resp" -> "Response"
      [] line.t \in {"watch", "notifOther", "notifBadParams"} -> "Notification"
      [] OTHER -> "Err"

\* What the response branch hands to the caller: Err(err) if the response carries
\* an error, else Ok(result.unwrap_or_default()).
\* The code of the error object a response line carries. The agent's codes
\* differ from one response to the next; here the responses to even ids carry
\* ERR_INTERNAL and those to odd ids ERR_NOT_FOUND.
LineCode(line) == IF line.id % 2 = 0 THEN ERR_INTERNAL ELSE ERR_NOT_FOUND

\* Mutant: the error of a response is replaced by a generic internal error.
ResponseResultGenericError(line) ==
    IF line.sh \in {"error", "both"}
    THEN ErrValue(ERR_INTERNAL, line.id)
    ELSE OkValue(line.id)

ResponseResult(line) ==
    IF line.sh \in {"error", "both"}
    THEN ErrValue(LineCode(line), line.id)
    ELSE OkValue(line.id)

\* tx.send(v) on the oneshot of call c: the value is stored unless the receiver
\* is gone; the error is ignored (let _ =).
SendTo(st, c, v) ==
    IF st.slot[c].st = "rxDropped"
    THEN st
    ELSE [st EXCEPT !.slot[c] = v, !.fills[c] = @ + 1]

\* Mutant: responses are matched in request order, the oldest pending call first.
MinKey(m) == CHOOSE k \in DOMAIN m : \A j \in DOMAIN m : k <= j
HandleResponseFifo(st, line) ==
    IF DOMAIN st.pending # {}
    THEN SendTo([st EXCEPT !.pending = MapRemove(st.pending, MinKey(st.pending))],
                st.pending[MinKey(st.pending)], ResponseResult(line))
    ELSE [st EXCEPT !.skip = "unknownId"]

\* Mutant: the sender is used without taking the entry out of the map.
HandleResponseKeepsEntry(st, line) ==
    IF line.id \in DOMAIN st.pending
    THEN SendTo(st, st.pending[line.id], ResponseResult(line))
    ELSE [st EXCEPT !.skip = "unknownId"]

\* The Response arm: pending.remove(&resp.id) under the mutex; Some(tx) gets the
\* result, None is logged ("Response for unknown id") and dropped.
HandleResponse(st, line) ==
    IF line.id \in DOMAIN st.pending
    THEN SendTo([st EXCEPT !.pending = MapRemove(st.pending, line.id)],
                st.pending[line.id], ResponseResult(line))
    ELSE [st EXCEPT !.skip = "unknownId"]

\* Mutant: the event is offered with try_send and lost when the queue is full.
HandleNotificationTrySend(st, line) ==
    IF line.t = "watch"
    THEN IF Len(st.watch_q) < WatchCap
         THEN [st EXCEPT !.evCount = @ + 1, !.watch_q = Append(@, st.evCount + 1)]
         ELSE [st EXCEPT !.evCount = @ + 1]
    ELSE [st EXCEPT !.skip = "junk"]

\* The Notification arm: a watch/event whose params deserialize is sent on
\* watch_tx (suspending while the queue is full); every other notification is
\* logged and dropped. The k-th event parsed carries payload k. Once the
\* receiver has been dropped the send returns an error, which is ignored.
HandleNotification(st, line) ==
    IF line.t = "watch"
    THEN IF st.rxGone
         THEN [st EXCEPT !.evCount = @ + 1]
         ELSE IF Len(st.watch_q) < WatchCap
              THEN [st EXCEPT !.evCount = @ + 1, !.watch_q = Append(@, st.evCount + 1)]
              ELSE [st EXCEPT !.evCount = @ + 1, !.blocked = TRUE]
    ELSE [st EXCEPT !.skip = "junk"]

\* One iteration of `while let Some(newline_pos) = buffer.find('\n')`: the line
\* is trimmed, skipped if empty, else parsed and dispatched.
ProcessLine(st, line) ==
    IF line.t = "empty"
    THEN [st EXCEPT !.skip = "junk"]
    ELSE CASE ParseLine(line) = "Response" -> HandleResponse(st, line)
           [] ParseLine(line) = "Notification" -> HandleNotification(st, line)
           [] OTHER -> [st EXCEPT !.skip = "junk"]

\* Mutant: the loop over the buffered lines ends at the first line that is no
\* protocol message (break instead of continue).
RECURSIVE ProcessLinesStopsAtJunk(_, _)
ProcessLinesStopsAtJunk(st, lines) ==
    IF lines = <<>>
    THEN st
    ELSE IF Head(lines).t \in JunkKinds
         THEN [st EXCEPT !.skip = "junk"]
         ELSE LET nxt == ProcessLine(st, Head(lines))
              IN IF nxt.blocked
                 THEN [nxt EXCEPT !.rest = Tail(lines)]
                 ELSE ProcessLinesStopsAtJunk(nxt, Tail(lines))

\* The while loop over the complete lines of the buffer, up to the point where
\* the task suspends in watch_tx.send with the remaining lines still buffered.
RECURSIVE ProcessLines(_, _)
ProcessLines(st, lines) ==
    IF lines = <<>>
    THEN st
    ELSE LET nxt == ProcessLine(st, Head(lines))
         IN IF nxt.blocked
            THEN [nxt EXCEPT !.rest = Tail(lines)]
            ELSE ProcessLines(nxt, Tail(lines))

\* The watch receiver still stored in the struct went away with the struct.
RxGone == dropped /\ watch_rx = "live"

IoState ==
    [pending |-> pending, slot |-> slot, fills |-> fills, watch_q |-> watch_q,
     evCount |-> evCount, blocked |-> FALSE, rest |-> <<>>, skip |-> lastSkip,
     rxGone |-> RxGone]

IoCommit(st) ==
    /\ pending' = st.pending
    /\ slot' = st.slot
    /\ fills' = st.fills
    /\ watch_q' = st.watch_q
    /\ evCount' = st.evCount
    /\ rest' = st.rest
    /\ lastSkip' = st.skip
    /\ ioPc' = IF st.blocked THEN "sendWatch" ELSE "loop"

WatchCount(lines) == Cardinality({i \in DOMAIN lines : lines[i].t = "watch"})

\* channel.wait() yields ChannelMsg::Data: the bytes are appended to the buffer
\* and the while loop processes every complete line the buffer then holds, in
\* order. `lines` are those lines; the bytes after the last newline stay in the
\* buffer and belong to a line of a later event.
IoData(lines) ==
    /\ ioPc = "loop"
    /\ evCount + WatchCount(lines) <= MaxEvents
    /\ UNCHANGED <<alive, nextId, pc, id, outcome, write_q, written, watch_rx, watch_taken,
                   takeRes, received, shutdown_q, signalled, atDeath, takenAt, deployVars, besideAgent>>
    /\ IoCommit(ProcessLines(IoState, lines))

\* watch_tx.send(event).await resumes once the queue has room; the while loop
\* then goes on with the lines still buffered.
IoSendWatch ==
    /\ ioPc = "sendWatch"
    /\ Len(watch_q) < WatchCap
    /\ UNCHANGED <<alive, nextId, pc, id, outcome, write_q, written, watch_rx, watch_taken,
                   takeRes, received, shutdown_q, signalled, atDeath, takenAt, deployVars, besideAgent>>
    /\ IoCommit(ProcessLines([IoState EXCEPT !.watch_q = Append(@, evCount)], rest))

\* ExtendedData (stderr, logged line by line) and the messages of the `_` arm.
IoIgnored(kind) ==
    /\ ioPc = "loop"
    /\ kind \in {"ExtendedData", "Other"}
    /\ UNCHANGED vars

\* `break`, then alive_r.store(false): the task has left the loop for good.
LeaveLoop ==
    /\ alive' = FALSE
    /\ ioPc' = "marked"
    /\ atDeath' = {pending[i] : i \in DOMAIN pending}

\* channel.wait() yields ExitStatus, Eof, Close or None.
IoChannelEnd(kind) ==
    /\ ioPc = "loop"
    /\ kind \in {"ExitStatus", "Eof", "Close", "None"}
    /\ LeaveLoop
    /\ UNCHANGED <<nextId, pending, callVars, write_q, written, rest, evCount, watchVars,
                   shutdown_q, signalled, fills, lastSkip, takenAt, deployVars, besideAgent>>

\* Mutant: a failed write is logged and the loop goes on with the next line.
IoWriteIgnoresError(ok) ==
    /\ ioPc = "loop"
    /\ write_q # <<>>
    /\ write_q' = Tail(write_q)
    /\ written' = IF ok THEN Append(written, Head(write_q)) ELSE written
    /\ UNCHANGED <<alive, ioPc, atDeath>>
    /\ UNCHANGED <<nextId, pending, callVars, rest, evCount, watchVars, shutdown_q, signalled,
                   fills, lastSkip, takenAt, deployVars, besideAgent>>

\* write_rx.recv() yields a line: it is written with a trailing newline; a failed
\* write ends the loop.
IoWrite(ok) ==
    /\ ioPc = "loop"
    /\ write_q # <<>>
    /\ write_q' = Tail(write_q)
    /\ IF ok
       THEN /\ written' = Append(written, Head(write_q))
            /\ UNCHANGED <<alive, ioPc, atDeath>>
       ELSE /\ LeaveLoop
            /\ UNCHANGED written
    /\ UNCHANGED <<nextId, pending, callVars, rest, evCount, watchVars, shutdown_q, signalled,
                   fills, lastSkip, takenAt, deployVars, besideAgent>>

\* shutdown_rx.recv() completes.
IoShutdown ==
    /\ ioPc = "loop"
    /\ shutdown_q = 1
    /\ shutdown_q' = 0
    /\ LeaveLoop
    /\ UNCHANGED <<nextId, pending, callVars, write_q, written, rest, evCount, watchVars,
                   signalled, fills, lastSkip, takenAt, deployVars, besideAgent>>

\* Mutant: the map is emptied without a value being sent to any caller still
\* listed in it.
DrainAllSendsNothing(st, keys) == st

\* "Fail all pending requests": every sender in the map gets
\* Err(AgentRpcError { ERR_INTERNAL, "Agent channel closed" }) and the map is emptied.
RECURSIVE DrainAll(_, _)
DrainAll(st, keys) ==
    IF keys = {}
    THEN st
    ELSE LET k == CHOOSE x \in keys : TRUE
         IN DrainAll(SendTo(st, st.pending[k], ClosedError), keys \ {k})

IoDrain ==
    /\ ioPc = "marked"
    /\ LET st == DrainAll(IoState, DOMAIN pending)
       IN /\ slot' = st.slot
          /\ fills' = st.fills
    /\ pending' = EmptyMap
    /\ ioPc' = "drained"
    /\ UNCHANGED <<alive, nextId, pc, id, outcome, write_q, written, rest, evCount, watchVars,
                   shutdown_q, signalled, atDeath, lastSkip, takenAt, deployVars, besideAgent>>

\* The task's future completes: write_rx, shutdown_rx and the channel are dropped.
IoEnd ==
    /\ ioPc = "drained"
    /\ ioPc' = "ended"
    /\ UNCHANGED <<alive, nextId, pending, callVars, write_q, written, rest, evCount, watchVars,
                   shutdown_q, signalled, fills, atDeath, lastSkip, takenAt, deployVars, besideAgent>>

\* ------------------------------------------------------------ take_watch_rx
\* Mutant: the stored receiver is handed out without looking at watch_taken.
TakeWatchRxIgnoresFlag(t) ==
    /\ takeRes[t] = "-"
    /\ watch_taken' = TRUE
    /\ takeRes' = [takeRes EXCEPT ![t] = watch_rx]
    /\ watch_rx' = "closed"
    /\ takenAt' = IF watch_taken THEN takenAt ELSE evCount
    /\ UNCHANGED <<alive, nextId, pending, callVars, write_q, written, ioPc, rest, evCount,
                   watch_q, received, shutdown_q, signalled, fills, atDeath, lastSkip, deployVars, besideAgent>>

\* Under the watch_rx mutex: watch_taken.swap(true); the first caller gets the
\* stored receiver, which is replaced by one whose sender is already gone.
TakeWatchRx(t) ==
    /\ takeRes[t] = "-"
    /\ watch_taken' = TRUE
    /\ IF watch_taken
       THEN /\ takeRes' = [takeRes EXCEPT ![t] = "None"]
            /\ UNCHANGED watch_rx
       ELSE /\ takeRes' = [takeRes EXCEPT ![t] = watch_rx]
            /\ watch_rx' = "closed"
    /\ takenAt' = IF watch_taken THEN takenAt ELSE evCount
    /\ UNCHANGED <<alive, nextId, pending, callVars, write_q, written, ioPc, rest, evCount,
                   watch_q, received, shutdown_q, signalled, fills, atDeath, lastSkip, deployVars, besideAgent>>

\* The consumer reads the next event from the receiver it took.
ConsumerRecv ==
    /\ \E t \in Takers : takeRes[t] = "live"
    /\ watch_q # <<>>
    /\ received' = Append(received, Head(watch_q))
    /\ watch_q' = Tail(watch_q)
    /\ UNCHANGED <<alive, nextId, pending, callVars, write_q, written, ioPc, rest, evCount,
                   watch_rx, watch_taken, takeRes, shutdown_q, signalled, fills, atDeath,
                   lastSkip, takenAt, deployVars, besideAgent>>

\* ------------------------------------------------------------ specification
\* Input alphabets of the Data events.
GarbageLine == [t |-> "garbage", id |-> 0, sh |-> "-"]
RpcLines == RespLines \cup {GarbageLine}

CallActions(c) ==
    \/ \E serOk \in BOOLEAN : CallPrepare(c, serOk)
    \/ InsertPending(c)
    \/ Enqueue(c)
    \/ AwaitResult(c)
    \/ TimeoutFires(c)
    \/ TimeoutCleanup(c)

IoTermination ==
    \/ \E kind \in {"ExitStatus", "Eof", "Close", "None"} : IoChannelEnd(kind)
    \/ \E ok \in BOOLEAN : IoWrite(ok)
    \/ IoShutdown
    \/ IoDrain
    \/ IoEnd

\* The RPC path: every caller, shutdown(), and a remote side that sends one
\* response or garbage line per Data event.
Next ==
    \/ \E c \in Calls : CallActions(c)
    \/ ShutdownSignal
    \/ \E line \in RpcLines : IoData(<<line>>)
    \/ \E kind \in {"ExtendedData", "Other"} : IoIgnored(kind)
    \/ IoTermination

Spec == Init /\ [][Next]_vars

\* The notification path: one caller, the takers and the consumer of the watch
\* receiver, and a remote side whose Data events carry up to MaxLines lines:
\* watch events, lines that are no protocol message, responses to the caller.
WatchLines == {WatchLine} \cup JunkLines \cup {[t |-> "resp", id |-> 1, sh |-> "result"]}
WatchChunks == SeqsUpTo(WatchLines, MaxLines)

NextWatch ==
    \/ CallActions(1)
    \/ ShutdownSignal
    \/ \E lines \in WatchChunks : IoData(lines)
    \/ IoSendWatch
    \/ \E kind \in {"ExtendedData", "Other"} : IoIgnored(kind)
    \/ IoTermination
    \/ \E t \in Takers : TakeWatchRx(t)
    \/ ConsumerRecv

SpecWatch == Init /\ [][NextWatch]_vars

\* shutdown() seen as a whole, on a transport whose watch receiver nobody takes:
\* caller 1 is its sys/shutdown call, and the signal is sent once that call has
\* returned, whatever it returned. The remote side sends responses, garbage and
\* watch events. What is scheduled fairly: the steps of a call in progress (its
\* timer included), the rest of shutdown(), and the IO task's own branches and
\* its wind-down; the remote side and the start of a call are under no
\* obligation.
ShutdownReturn == pc[1] = "done" /\ ShutdownSignal

CallProgress(c) ==
    \/ InsertPending(c)
    \/ Enqueue(c)
    \/ AwaitResult(c)
    \/ TimeoutFires(c)
    \/ TimeoutCleanup(c)

NextShutdown ==
    \/ \E c \in Calls : CallActions(c)
    \/ ShutdownReturn
    \/ \E line \in RpcLines \cup {WatchLine} : IoData(<<line>>)
    \/ \E kind \in {"ExtendedData", "Other"} : IoIgnored(kind)
    \/ IoTermination

FairShutdown ==
    /\ \A c \in Calls : WF_vars(CallProgress(c))
    /\ WF_vars(ShutdownReturn)
    /\ WF_vars(\E ok \in BOOLEAN : IoWrite(ok))
    /\ WF_vars(IoSendWatch)
    /\ WF_vars(IoShutdown)
    /\ WF_vars(IoDrain)
    /\ WF_vars(IoEnd)

SpecShutdown == Init /\ [][NextShutdown]_vars /\ FairShutdown

\* ------------------------------------------------------- deploy_and_start
transportVars ==
    <<alive, nextId, pending, pc, id, slot, outcome, write_q, written, ioPc, rest, evCount,
      watch_q, watch_rx, watch_taken, takeRes, received, shutdown_q, signalled, fills,
      atDeath, lastSkip, takenAt>>

\* Strings are sequences of characters; a name that is only ever compared as a
\* whole ("x86_64", the NOT_FOUND marker) is one character of the model.
Whitespace == {" ", "\n"}

RECURSIVE TrimStart(_)
TrimStart(s) == IF s # <<>> /\ Head(s) \in Whitespace THEN TrimStart(Tail(s)) ELSE s

RECURSIVE TrimEnd(_)
TrimEnd(s) ==
    IF s # <<>> /\ s[Len(s)] \in Whitespace THEN TrimEnd(SubSeq(s, 1, Len(s) - 1)) ELSE s

\* str::trim
Trim(s) == TrimEnd(TrimStart(s))

\* str::contains
Contains(s, t) == \E i \in 0..(Len(s) - Len(t)) : SubSeq(s, i + 1, i + Len(t)) = t

\* env!("CARGO_PKG_VERSION") and the marker the probe command echoes.
AGENT_VERSION == <<"1", ".", "2">>
NOT_FOUND == <<"NOT_FOUND">>

\* What exec_command_inner can return: Err, or Ok with stdout, an exit code
\* (Some(0), Some(n) with n # 0, None) and stderr (empty or not).
ExitCodes == {"zero", "nonzero", "none"}
ExecErr == [ok |-> FALSE, stdout |-> <<>>, exit |-> "none", stderr |-> ""]
ExecOks(outs, exits, errs) == [ok : {TRUE}, stdout : outs, exit : exits, stderr : errs]
ExecResults(outs, exits, errs) == {ExecErr} \cup ExecOks(outs, exits, errs)

\* Outputs of `uname -m` and of the version probe the remote side may produce.
ArchOutputs ==
    {<<>>, <<"\n">>, <<"x86_64", "\n">>, <<"amd64", "\n">>, <<"aarch64", "\n">>,
     <<"arm64", "\n">>, <<"riscv64", "\n">>}
ProbeOutputs ==
    {<<>>, <<"\n">>, AGENT_VERSION, AGENT_VERSION \o <<"\n">>, <<"1", ".", "3", "\n">>,
     AGENT_VERSION \o <<"0", "\n">>, NOT_FOUND \o <<"\n">>,
     AGENT_VERSION \o <<"\n">> \o NOT_FOUND \o <<"\n">>}

\* Result values the agent may answer sys/info with: objects that carry the
\* identity fields, and values that do not have the shape.
InfoObjects ==
    {[shape |-> "object", version |-> "v1", arch |-> "a1", pid |-> 1],
     [shape |-> "object", version |-> "v2", arch |-> "a1", pid |-> 1],
     [shape |-> "object", version |-> "v1", arch |-> "a2", pid |-> 1],
     [shape |-> "object", version |-> "v1", arch |-> "a1", pid |-> 2]}
InfoValues ==
    InfoObjects \cup {[shape |-> "missingField", version |-> "v1", arch |-> "a1", pid |-> 0],
                      [shape |-> "null", version |-> "", arch |-> "", pid |-> 0]}

\* serde_json::from_value::<SysInfoResult>: the fields are taken from the object;
\* a value without them is an error.
ParseSysInfo(v) ==
    IF v.shape = "object"
    THEN [ok |-> TRUE, val |-> [version |-> v.version, arch |-> v.arch, pid |-> v.pid]]
    ELSE [ok |-> FALSE, val |-> "-"]

\* detect_arch: the trimmed stdout of `uname -m`; an execution error or empty
\* output is ArchDetection.
DetectArchResult(r) ==
    IF r.ok /\ Trim(r.stdout) # <<>>
    THEN [ok |-> TRUE, val |-> Trim(r.stdout)]
    ELSE [ok |-> FALSE, val |-> <<>>]

\* Mutant: an unknown architecture falls back to the x86_64 binary.
ArchToTargetFallback(a) ==
    CASE a \in {<<"aarch64">>, <<"arm64">>} -> "aarch64-linux-musl"
      [] OTHER -> "x86_64-linux-musl"

\* arch_to_target
ArchToTarget(a) ==
    CASE a \in {<<"x86_64">>, <<"amd64">>} -> "x86_64-linux-musl"
      [] a \in {<<"aarch64">>, <<"arm64">>} -> "aarch64-linux-musl"
      [] OTHER -> "UnsupportedArch"

\* Mutant: the probe is ignored and the binary is always uploaded.
NeedsUploadAlways(r) == TRUE

\* needs_upload, on the result of the probe command.
NeedsUpload(r) ==
    IF r.ok
    THEN LET output == Trim(r.stdout)
         IN IF Contains(output, NOT_FOUND) \/ output = <<>>
            THEN TRUE
            ELSE IF Contains(output, AGENT_VERSION) THEN FALSE ELSE TRUE
    ELSE TRUE

\* Mutant: a non-zero or missing exit code is an error.
ExecSimpleStrict(r) == IF r.ok /\ r.exit = "zero" THEN "Ok" ELSE "ExecFailed"

\* exec_simple: Err of exec_command_inner is ExecFailed; a non-zero exit code, or
\* stderr output without an exit code, is only warned about.
ExecSimple(r) == IF r.ok THEN "Ok" ELSE "ExecFailed"

\* How a command ended, as the log keeps it.
ExecClass(r) ==
    CASE ~r.ok -> "err"
      [] r.exit = "nonzero" -> "nonzero"
      [] r.exit = "none" /\ r.stderr # "" -> "stderr"
      [] OTHER -> "ok"

OkErr(ok) == IF ok THEN "ok" ELSE "err"
Logged(op, res) == dlog' = Append(dlog, [op |-> op, res |-> res])

\* return Err(DeployError::kind)
Fail(kind) ==
    /\ dpc' = "failed"
    /\ dres' = [kind |-> kind, identity |-> "-", transport |-> FALSE]

\* Step 1: detect_arch.
DetectArch(r) ==
    /\ dpc = "detect"
    /\ Logged("uname", OkErr(r.ok))
    /\ IF DetectArchResult(r).ok
       THEN arch' = DetectArchResult(r).val /\ dpc' = "resolve" /\ UNCHANGED dres
       ELSE Fail("ArchDetection") /\ UNCHANGED arch
    /\ UNCHANGED <<probeOut, infoValue, transportVars, besideAgent>>

\* Step 2: resolve_binary: arch_to_target first, then the resource lookup.
ResolveBinary(found) ==
    /\ dpc = "resolve"
    /\ IF ArchToTarget(arch) = "UnsupportedArch"
       THEN Fail("UnsupportedArch") /\ UNCHANGED dlog
       ELSE /\ Logged("lookup", OkErr(found))
            /\ IF found
               THEN dpc' = "probe" /\ UNCHANGED dres
               ELSE Fail("BinaryNotFound")
    /\ UNCHANGED <<arch, probeOut, infoValue, transportVars, besideAgent>>

\* Step 4: needs_upload runs the probe and decides.
Probe(r) ==
    /\ dpc = "probe"
    /\ Logged("probe", OkErr(r.ok))
    /\ probeOut' = r
    /\ dpc' = IF NeedsUpload(r) THEN "mkdir" ELSE "open"
    /\ UNCHANGED <<arch, infoValue, dres, transportVars, besideAgent>>

\* Step 5: mkdir -p through exec_simple.
Mkdir(r) ==
    /\ dpc = "mkdir"
    /\ Logged("mkdir", ExecClass(r))
    /\ IF ExecSimple(r) = "Ok"
       THEN dpc' = "read" /\ UNCHANGED dres
       ELSE Fail("ExecFailed")
    /\ UNCHANGED <<arch, probeOut, infoValue, transportVars, besideAgent>>

\* Mutant: the binary is read but never transferred.
ReadBinarySkipsUpload(ok) ==
    /\ dpc = "read"
    /\ Logged("read", OkErr(ok))
    /\ IF ok
       THEN dpc' = "chmod" /\ UNCHANGED dres
       ELSE Fail("LocalIo")
    /\ UNCHANGED <<arch, probeOut, infoValue, transportVars, besideAgent>>

\* tokio::fs::read of the local binary.
ReadBinary(ok) ==
    /\ dpc = "read"
    /\ Logged("read", OkErr(ok))
    /\ IF ok
       THEN dpc' = "upload" /\ UNCHANGED dres
       ELSE Fail("LocalIo")
    /\ UNCHANGED <<arch, probeOut, infoValue, transportVars, besideAgent>>

\* Mutant: a failed transfer is ignored.
UploadIgnoresError(ok) ==
    /\ dpc = "upload"
    /\ Logged("upload", OkErr(ok))
    /\ dpc' = "chmod"
    /\ UNCHANGED <<arch, probeOut, infoValue, dres, transportVars, besideAgent>>

\* sftp.write_content
Upload(ok) ==
    /\ dpc = "upload"
    /\ Logged("upload", OkErr(ok))
    /\ IF ok
       THEN dpc' = "chmod" /\ UNCHANGED dres
       ELSE Fail("Upload")
    /\ UNCHANGED <<arch, probeOut, infoValue, transportVars, besideAgent>>

\* chmod +x through exec_simple.
Chmod(r) ==
    /\ dpc = "chmod"
    /\ Logged("chmod", ExecClass(r))
    /\ IF ExecSimple(r) = "Ok"
       THEN dpc' = "open" /\ UNCHANGED dres
       ELSE Fail("ExecFailed")
    /\ UNCHANGED <<arch, probeOut, infoValue, transportVars, besideAgent>>

\* Mutant: a channel that cannot be opened is reported as ExecFailed.
OpenChannelReportsExecFailed(ok) ==
    /\ dpc = "open"
    /\ Logged("open", OkErr(ok))
    /\ IF ok
       THEN dpc' = "start" /\ UNCHANGED dres
       ELSE Fail("ExecFailed")
    /\ UNCHANGED <<arch, probeOut, infoValue, transportVars, besideAgent>>

\* Step 6, start_agent: open_session_channel.
OpenChannel(ok) ==
    /\ dpc = "open"
    /\ Logged("open", OkErr(ok))
    /\ IF ok
       THEN dpc' = "start" /\ UNCHANGED dres
       ELSE Fail("StartFailed")
    /\ UNCHANGED <<arch, probeOut, infoValue, transportVars, besideAgent>>

\* AgentTransport::new: channel.exec of the agent command; on success the
\* transport exists, its IO task runs, and handshake makes its first call.
StartAgent(ok) ==
    /\ dpc = "start"
    /\ Logged("start", OkErr(ok))
    /\ IF ok
       THEN dpc' = "pinging" /\ UNCHANGED dres
       ELSE Fail("StartFailed")
    /\ UNCHANGED <<arch, probeOut, infoValue, transportVars, besideAgent>>

\* Mutant: the drop stores the flag but the IO task is not woken.
DropTransportKeepsTask ==
    /\ alive' = FALSE
    /\ UNCHANGED <<nextId, pending, callVars, write_q, written, ioPc, rest, evCount,
                   watchVars, shutdown_q, signalled, fills, atDeath, lastSkip, takenAt>>

\* The transport goes out of scope: Drop stores alive = false; shutdown_tx is
\* dropped with the struct, so shutdown_rx.recv() completes (with None, which
\* the `_ =` pattern of the select accepts like a signal).
DropTransport ==
    /\ alive' = FALSE
    /\ shutdown_q' = IF ioPc = "ended" THEN shutdown_q ELSE 1
    /\ UNCHANGED <<nextId, pending, callVars, write_q, written, ioPc, rest, evCount,
                   watchVars, signalled, fills, atDeath, lastSkip, takenAt>>

\* handshake returned Err: deploy_and_start returns it and the transport is dropped.
FailHandshake == Fail("Handshake") /\ DropTransport

\* Mutant: the result of sys/ping is not looked at.
AfterPingIgnoresError ==
    /\ dpc = "pinging" /\ pc[1] = "done"
    /\ Logged("ping", OkErr(outcome[1].kind = "Ok"))
    /\ dpc' = "infoing"
    /\ UNCHANGED <<arch, probeOut, infoValue, dres, transportVars, besideAgent>>

\* handshake: sys/ping has returned. On Ok the sys/info call is made next.
AfterPing ==
    /\ dpc = "pinging" /\ pc[1] = "done"
    /\ Logged("ping", OkErr(outcome[1].kind = "Ok"))
    /\ IF outcome[1].kind = "Ok"
       THEN dpc' = "infoing" /\ UNCHANGED <<dres, transportVars, besideAgent>>
       ELSE FailHandshake
    /\ UNCHANGED <<arch, probeOut, infoValue, besideAgent>>

\* handshake: sys/info has returned. v is the result value its response
\* carried; it is deserialized, and deploy_and_start returns the transport with
\* the identity.
AfterInfo(v) ==
    /\ dpc = "infoing" /\ pc[2] = "done"
    /\ Logged("info", OkErr(outcome[2].kind = "Ok"))
    /\ IF outcome[2].kind = "Ok"
       THEN /\ infoValue' = v
            /\ IF ParseSysInfo(v).ok
               THEN /\ dpc' = "done"
                    /\ dres' = [kind |-> "Ok", identity |-> ParseSysInfo(v).val,
                                transport |-> TRUE]
                    /\ UNCHANGED transportVars
               ELSE FailHandshake
       ELSE FailHandshake /\ UNCHANGED infoValue
    /\ UNCHANGED <<arch, probeOut, besideAgent>>

\* The two calls of handshake, each made once the one before has returned.
HandshakeCall ==
    \/ dpc = "pinging" /\ CallActions(1)
    \/ dpc = "infoing" /\ CallActions(2)

\* The transport exists and has not been handed to the caller.
TransportUp == dpc \in {"pinging", "infoing"} \/ dres.kind = "Handshake"

NextDeploy ==
    \/ \E r \in ExecResults(ArchOutputs, {"zero"}, {""}) : DetectArch(r)
    \/ \E found \in BOOLEAN : ResolveBinary(found)
    \/ \E r \in ExecResults(ProbeOutputs, {"zero"}, {""}) : Probe(r)
    \/ \E r \in ExecResults({<<>>}, ExitCodes, {"", "e"}) : Mkdir(r)
    \/ \E ok \in BOOLEAN : ReadBinary(ok)
    \/ \E ok \in BOOLEAN : Upload(ok)
    \/ \E r \in ExecResults({<<>>}, ExitCodes, {"", "e"}) : Chmod(r)
    \/ \E ok \in BOOLEAN : OpenChannel(ok)
    \/ \E ok \in BOOLEAN : StartAgent(ok)
    \/ HandshakeCall
    \/ AfterPing
    \/ \E v \in InfoValues : AfterInfo(v)
    \/ TransportUp /\ \E line \in RpcLines : IoData(<<line>>)
    \/ TransportUp /\ \E kind \in {"ExtendedData", "Other"} : IoIgnored(kind)
    \/ TransportUp /\ IoTermination

SpecDeploy == Init /\ [][NextDeploy]_vars

\* ------------------------------------------------------------------ claims
Done(c) == pc[c] = "done"
\* The call got as far as pending.insert.
Registered(c) ==
    \/ pc[c] \in {"inserted", "waiting", "timedout"}
    \/ Done(c) /\ outcome[c].via \notin {"precheck", "serialize"}
FromResponse(v) == v.rid # 0

\* C1: each response completes exactly the call whose request id equals the
\* response id, whatever the arrival order: a value a call holds or returned that
\* came from a response came from a response carrying the call's own id; a
\* response whose id is pending takes out that entry only and touches the oneshot
\* of its owner only; a response whose id is in no pending entry changes no call.
C1_OwnIdOnly ==
    \A c \in Calls :
        /\ FromResponse(slot[c]) => slot[c].rid = id[c]
        /\ FromResponse(outcome[c]) => outcome[c].rid = id[c]
C1_ByIdOnly ==
    ioPc = "loop" =>
        \A line \in RespLines :
            LET st == ProcessLines(IoState, <<line>>)
            IN IF line.id \in DOMAIN pending
               THEN /\ id[pending[line.id]] = line.id
                    /\ DOMAIN st.pending = DOMAIN pending \ {line.id}
                    /\ \A c \in Calls : c # pending[line.id] => st.slot[c] = slot[c]
               ELSE st.pending = pending /\ st.slot = slot /\ st.fills = fills
C1_ResponseMatchesById == C1_OwnIdOnly /\ C1_ByIdOnly
\* Call 2 was completed by the response carrying its id while call 1, issued
\* earlier, is still pending, and a response with an unknown id was dropped.
C1_Witness ==
    /\ Done(2) /\ outcome[2].kind = "Ok" /\ outcome[2].rid = id[2]
    /\ pc[1] = "waiting" /\ slot[1] = EmptySlot /\ id[1] \in DOMAIN pending
    /\ lastSkip = "unknownId"

\* C2 as stated: a registered call's outcome comes from a matching response, its
\* own timeout or the termination drain, and no oneshot is fulfilled twice.
C2_Original ==
    \A c \in Calls :
        /\ fills[c] <= 1
        /\ (Done(c) /\ Registered(c)) => outcome[c].via \in {"slot", "timeout"}
\* C2 amended: a registered call returns exactly one outcome, produced by exactly
\* one of a matching response, its own timeout, the termination drain, or the
\* failure to enqueue the request once the IO task has ended; no oneshot is
\* fulfilled twice and an outcome, once returned, never changes.
C2_OneProducer ==
    \A c \in Calls :
        /\ fills[c] <= 1
        /\ (Done(c) /\ Registered(c)) =>
            /\ outcome[c].via \in {"slot", "timeout", "enqueue"}
            /\ outcome[c].via = "slot" =>
                /\ fills[c] = 1
                /\ slot[c].st \in {"ok", "err"}
                /\ outcome[c] = Outcome(outcome[c].kind, slot[c], "slot")
            /\ outcome[c].via = "timeout" => fills[c] = 0 /\ slot[c] = RxDropped
            /\ outcome[c].via = "enqueue" => ioPc = "ended"
C2_OutcomeStable == \A c \in Calls : Done(c) => Done(c)' /\ outcome'[c] = outcome[c]
C2_ExactlyOnce == [](C2_OneProducer) /\ [][C2_OutcomeStable]_vars
\* The timer of a call has fired and, before the call removed its entry, the
\* response arrived and took the entry out of the map.
C2_Witness ==
    \E c \in Calls :
        /\ pc[c] = "timedout" /\ id[c] \notin DOMAIN pending
        /\ ioPc = "loop" /\ fills[c] = 0

\* C3: once the IO task has handled ExitStatus, Eof, Close or end-of-channel, every
\* call that was pending at the event is out of the map and resolved: the drain
\* put the error into its oneshot (unless its own timer had fired before), none
\* is left waiting on an empty oneshot, and whatever it returns is an error.
C3_DrainResolvesAll ==
    ioPc \in {"drained", "ended"} =>
        \A c \in atDeath :
            /\ id[c] \notin DOMAIN pending
            /\ slot[c] = ClosedError \/ slot[c] = RxDropped
            /\ pc[c] = "waiting" => slot[c] = ClosedError
            /\ Done(c) => outcome[c].kind \in {"RpcError", "Timeout", "ChannelClosed"}
\* Every call was written and pending when the channel ended (no write failed, no
\* shutdown was signalled) and the drain has given each of them the error.
C3_Witness ==
    /\ ioPc = "drained" /\ atDeath = Calls
    /\ Len(written) = MaxCalls /\ ~signalled
    /\ \A c \in Calls : slot[c] = ClosedError

\* C4: a call whose oneshot never received anything returns Timeout, its id is
\* then out of the pending map, and a response for that id arriving afterwards
\* is dropped: it changes no pending entry and no oneshot and the IO task goes on
\* with its loop; the transport is dead only once the IO task has left the loop.
C4_TimeoutCleansUp ==
    \A c \in Calls :
        /\ (Done(c) /\ outcome[c].via \in {"slot", "timeout", "senderDropped"} /\ fills[c] = 0)
            => outcome[c].kind = "Timeout"
        /\ outcome[c].kind = "Timeout" => id[c] \notin DOMAIN pending
C4_LateResponseDropped ==
    ioPc = "loop" =>
        \A c \in Calls, line \in RespLines :
            (outcome[c].kind = "Timeout" /\ line.id = id[c]) =>
                LET st == ProcessLines(IoState, <<line>>)
                IN /\ st.pending = pending /\ st.slot = slot /\ st.fills = fills
                   /\ ~st.blocked /\ st.skip = "unknownId"
C4_TimeoutThenLateResponse ==
    /\ C4_TimeoutCleansUp
    /\ C4_LateResponseDropped
    /\ alive <=> ioPc \in {"loop", "sendWatch"}
\* A written call has timed out, the transport is alive, and a response was
\* dropped for want of a pending entry.
C4_Witness ==
    \E c \in Calls :
        /\ outcome[c].kind = "Timeout" /\ id[c] \notin DOMAIN pending
        /\ \E i \in DOMAIN written : written[i] = id[c]
        /\ alive /\ ioPc = "loop" /\ lastSkip = "unknownId"

\* C5: alive never goes from false back to true, and a call started while it is
\* false returns NotConnected at once, drawing no id, inserting no pending entry
\* and enqueueing nothing.
C5_DeadStep ==
    /\ ~alive => ~alive'
    /\ \A c \in Calls :
        (~alive /\ pc[c] = "idle" /\ pc'[c] # "idle")
            => /\ Done(c)' /\ outcome'[c].kind = "NotConnected"
               /\ UNCHANGED <<nextId, id, pending, write_q, slot>>
C5_DeadIsTerminal == [][C5_DeadStep]_vars
\* A call was started on a dead transport.
C5_Witness == \E c \in Calls : ~alive /\ outcome[c].kind = "NotConnected"

\* C6: the ids handed out on the transport are pairwise different and all below
\* the counter, every pending entry is stored under the id of the call it belongs
\* to, and an insert never lands on a key already in the map.
C6_IdsDistinct ==
    /\ \A c \in Calls : id[c] < nextId
    /\ \A c, d \in Calls : (c # d /\ id[c] # 0) => id[c] # id[d]
    /\ \A k \in DOMAIN pending : id[pending[k]] = k
C6_InsertStep ==
    \A c \in Calls :
        (pc[c] = "prepared" /\ pc'[c] = "inserted") => id[c] \notin DOMAIN pending
C6_UniqueRequestIds == [](C6_IdsDistinct) /\ [][C6_InsertStep]_vars
\* Every call is pending at the same time, each under its own id.
C6_Witness ==
    /\ \A c \in Calls : pc[c] = "waiting" /\ id[c] \in DOMAIN pending
    /\ Cardinality(DOMAIN pending) = MaxCalls

\* C7: take_watch_rx hands out the receiver fed by the IO task at most once: the
\* first invocation to run gets it, every later one gets None, and no invocation
\* gets the closed stand-in receiver.
C7_OneHolder ==
    /\ Cardinality({t \in Takers : takeRes[t] \notin {"-", "None"}}) <= 1
    /\ \A t \in Takers : takeRes[t] # "closed"
    /\ (\E t \in Takers : takeRes[t] # "-") => (\E t \in Takers : takeRes[t] = "live")
C7_TakeStep ==
    \A t \in Takers :
        (takeRes[t] = "-" /\ takeRes'[t] # "-")
            => takeRes'[t] = IF \A u \in Takers : takeRes[u] = "-" THEN "live" ELSE "None"
C7_TakeOnce == [](C7_OneHolder) /\ [][C7_TakeStep]_vars
\* One invocation holds the receiver and has read an event from it, another one
\* got None.
C7_Witness ==
    \E t, u \in Takers :
        /\ takeRes[t] = "live" /\ takeRes[u] = "None"
        /\ received # <<>>

\* C8: an event that arrived before the receiver was taken is never delivered to
\* the consumer that takes the receiver afterwards (events are numbered in
\* arrival order; takenAt is the number of events arrived at the first take).
C8_DroppedWithoutConsumer ==
    \A i \in DOMAIN received : received[i] > takenAt

\* C9: a call that was pending when the transport died, and whose own timer did
\* not fire, returns ChannelClosed.
C9_PendingFailWithChannelClosed ==
    \A c \in atDeath :
        (Done(c) /\ outcome[c].kind # "Timeout") => outcome[c].kind = "ChannelClosed"

\* C10: a stdout line that is no protocol message (unparseable, empty, or a
\* notification that is no well-formed watch event) is skipped: processing it
\* completes no call and delivers no event and the IO task stays in its loop of
\* a live transport; a line before or after it in the same Data event, or held
\* back behind a full notification queue, has the effect it has without it.
C10_StripJunk(lines) == SelectSeq(lines, LAMBDA l : l.t \notin JunkKinds)
C10_SameEffect(a, b) ==
    [a EXCEPT !.skip = "-", !.rest = C10_StripJunk(@)]
        = [b EXCEPT !.skip = "-", !.rest = C10_StripJunk(@)]
C10_JunkSkipped ==
    /\ ioPc = "loop" =>
        /\ alive
        /\ \A j \in JunkLines :
            /\ C10_SameEffect(ProcessLines(IoState, <<j>>), IoState)
            /\ \A l \in WatchLines \ JunkLines :
                /\ C10_SameEffect(ProcessLines(IoState, <<j, l>>),
                                  ProcessLines(IoState, <<l>>))
                /\ C10_SameEffect(ProcessLines(IoState, <<l, j>>),
                                  ProcessLines(IoState, <<l>>))
    /\ (ioPc = "sendWatch" /\ Len(watch_q) < WatchCap) =>
        LET st == [IoState EXCEPT !.watch_q = Append(@, evCount)]
        IN C10_SameEffect(ProcessLines(st, rest), ProcessLines(st, C10_StripJunk(rest)))
\* A line that is no protocol message was skipped; the transport is alive, the
\* call made on it got its response and a watch event reached the consumer.
C10_Witness ==
    /\ lastSkip = "junk" /\ alive /\ ioPc = "loop"
    /\ Done(1) /\ outcome[1].kind = "Ok"
    /\ received # <<>>

\* C11: a step in which the IO task takes a request line off the write queue
\* without the line reaching the channel (the write failed) ends the loop and
\* clears alive with every pending call, the writer of the line included, noted
\* for the drain; once the drain has run each of them holds the error (or had
\* timed out) and returns no result; a call started on the dead transport
\* returns NotConnected.
C11_FailedWrite ==
    /\ ioPc = "loop" /\ write_q # <<>>
    /\ write_q' = Tail(write_q) /\ written' = written
C11_WriteFailStep ==
    /\ C11_FailedWrite =>
        /\ ~alive' /\ ioPc' = "marked"
        /\ pending' = pending
        /\ atDeath' = {pending[i] : i \in DOMAIN pending}
        /\ Head(write_q) \in DOMAIN pending => pending[Head(write_q)] \in atDeath'
    /\ \A c \in Calls :
        (~alive /\ pc[c] = "idle" /\ pc'[c] # "idle") => outcome'[c].kind = "NotConnected"
C11_DeadAndDrained ==
    /\ ~alive => ioPc \in {"marked", "drained", "ended"}
    /\ ioPc \in {"drained", "ended"} =>
        \A c \in atDeath :
            /\ id[c] \notin DOMAIN pending
            /\ slot[c] \in {ClosedError, RxDropped}
            /\ Done(c) => outcome[c].kind \in {"RpcError", "Timeout", "ChannelClosed"}
C11_WriteFailureIsFatal == [](C11_DeadAndDrained) /\ [][C11_WriteFailStep]_vars
\* The write of a call's line failed (the call is past enqueueing, its id neither
\* in the queue nor among the written lines), nobody signalled shutdown, and the
\* call has returned the drain's error.
C11_Witness ==
    \E c \in Calls :
        /\ ~signalled /\ ioPc \in {"drained", "ended"} /\ ~alive
        /\ c \in atDeath /\ Done(c) /\ outcome[c].kind = "RpcError"
        /\ \A i \in DOMAIN written : written[i] # id[c]
        /\ \A i \in DOMAIN write_q : write_q[i] # id[c]

\* C13: the events the consumer has read, followed by those queued and the one
\* the IO task is waiting to queue, are exactly the watch events parsed from the
\* byte stream so far, each once and in the order of their lines, whatever
\* responses and other lines came between them.
C13_Pipeline ==
    received \o watch_q \o (IF ioPc = "sendWatch" THEN <<evCount>> ELSE <<>>)
C12_ShutdownStopsTransport ==
    (pc[1] # "idle") ~> (signalled /\ ~alive /\ ioPc \in {"drained", "ended"})

\* ------------------------------------------------- claims on deploy_and_start
Ops(log) == [i \in DOMAIN log |-> log[i].op]
IsPrefix(a, b) == Len(a) <= Len(b) /\ SubSeq(b, 1, Len(a)) = a
HasOp(op) == \E i \in DOMAIN dlog : dlog[i].op = op
ResOf(op) == dlog[CHOOSE i \in DOMAIN dlog : dlog[i].op = op].res
\* What was done after the probe.
Steps == SubSeq(dlog, 4, Len(dlog))
ProbeOk == HasOp("probe") /\ probeOut.ok
FullSequence == <<"mkdir", "read", "upload", "chmod", "open", "start", "ping", "info">>

\* C14: when the version probe returns empty output, mkdir, the upload (read and
\* transfer), chmod, the agent start, sys/ping and sys/info happen in exactly
\* that order, each only after the one before returned without error, and on
\* success the returned identity has the fields of the sys/info result.
C14_FullSequenceOnEmptyProbe ==
    (ProbeOk /\ Trim(probeOut.stdout) = <<>>) =>
        /\ IsPrefix(Ops(Steps), FullSequence)
        /\ \A i \in 1..(Len(Steps) - 1) : Steps[i].res # "err"
        /\ dpc \in {"pinging", "infoing"} => Len(Steps) >= 6 /\ Steps[Len(Steps)].res # "err"
        /\ pc[1] # "idle" => Len(Steps) >= 6
        /\ pc[2] # "idle" => Len(Steps) >= 7
        /\ dres.kind = "Ok" =>
              /\ Ops(Steps) = FullSequence
              /\ Steps[8].res = "ok"
              /\ dres.identity.version = infoValue.version
              /\ dres.identity.arch = infoValue.arch
              /\ dres.identity.pid = infoValue.pid

\* A deployment that uploaded after an empty probe and returned the identity of
\* an agent with pid 2.
C14_Witness ==
    /\ ProbeOk /\ probeOut.stdout = <<"\n">>
    /\ dres.kind = "Ok" /\ dres.identity.pid = 2

\* C15: when the probe prints exactly the local version, none of mkdir, upload
\* or chmod is issued and the agent start follows the probe directly.
C15_ExactVersionSkipsUpload ==
    (ProbeOk /\ Trim(probeOut.stdout) = AGENT_VERSION) =>
        /\ dpc \notin {"mkdir", "read", "upload", "chmod"}
        /\ IsPrefix(Ops(Steps), <<"open", "start", "ping", "info">>)

\* The probe printed the local version and the agent was started.
C15_Witness ==
    /\ ProbeOk /\ probeOut.stdout = AGENT_VERSION \o <<"\n">>
    /\ HasOp("start") /\ ResOf("start") = "ok"

\* The upload branch was taken.
Uploading == dpc = "mkdir" \/ HasOp("mkdir")

\* C16: upload is skipped if and only if the probe ran and its output is exactly
\* the local version.
C16_SkipIffExactMatch ==
    HasOp("probe") => (~Uploading <=> (probeOut.ok /\ Trim(probeOut.stdout) = AGENT_VERSION))

Recognised == {<<"x86_64">>, <<"amd64">>, <<"aarch64">>, <<"arm64">>}

\* C17: an architecture that is not recognised ends deploy_and_start with
\* UnsupportedArch, and nothing after the detection is carried out: no resource
\* lookup, probe, mkdir, upload, chmod or start.
C17_UnsupportedArchIsTerminal ==
    /\ (arch # <<>> /\ arch \notin Recognised /\ dpc # "resolve") =>
           /\ dpc = "failed" /\ dres.kind = "UnsupportedArch"
           /\ Ops(dlog) = <<"uname">>
    /\ dres.kind = "UnsupportedArch" => arch \notin Recognised

\* `uname -m` printed riscv64 and deploy_and_start returned UnsupportedArch.
C17_Witness == arch = <<"riscv64">> /\ dres.kind = "UnsupportedArch"

UploadOps == {"mkdir", "read", "upload", "chmod"}

\* C18, as stated: the agent channel is opened on the upload branch only after
\* mkdir, the read, the transfer and chmod all succeeded.
C18_StartOnlyAfterAllSucceeded ==
    (Uploading /\ HasOp("open")) =>
        \A op \in UploadOps : HasOp(op) /\ ResOf(op) = "ok"

\* C18, amended: on the upload branch a sub-step that returned an error (the
\* command could not be executed, the read failed, the transfer failed) ends
\* deploy_and_start with that error and the channel is never opened; the channel
\* is opened only after all four returned without error.
C18_ErrorAbortsBeforeStart ==
    /\ (Uploading /\ HasOp("open")) =>
           \A op \in UploadOps : HasOp(op) /\ ResOf(op) # "err"
    /\ \A i \in DOMAIN dlog :
           (dlog[i].op \in UploadOps /\ dlog[i].res = "err") =>
               /\ i = Len(dlog)
               /\ dpc = "failed"
               /\ dres.kind = (CASE dlog[i].op = "read" -> "LocalIo"
                                 [] dlog[i].op = "upload" -> "Upload"
                                 [] OTHER -> "ExecFailed")

\* The transfer failed and deploy_and_start returned Upload.
C18_Witness ==
    /\ HasOp("upload") /\ ResOf("upload") = "err"
    /\ dres.kind = "Upload"

\* C19: mkdir or chmod that ran and exited non-zero does not abort: the next
\* step follows; ExecFailed is returned exactly when the command could not be
\* executed.
C19_NonZeroExitContinues ==
    /\ \A i \in DOMAIN dlog :
           dlog[i].op \in {"mkdir", "chmod"} =>
               IF dlog[i].res = "err"
               THEN i = Len(dlog) /\ dres.kind = "ExecFailed"
               ELSE IF i = Len(dlog)
                    THEN dpc = (IF dlog[i].op = "mkdir" THEN "read" ELSE "open")
                    ELSE dlog[i + 1].op = (IF dlog[i].op = "mkdir" THEN "read" ELSE "open")
    /\ dres.kind = "ExecFailed" =>
           dlog[Len(dlog)].op \in {"mkdir", "chmod"} /\ dlog[Len(dlog)].res = "err"

\* chmod exited non-zero and the agent was started all the same.
C19_Witness ==
    /\ HasOp("chmod") /\ ResOf("chmod") = "nonzero"
    /\ HasOp("start") /\ ResOf("start") = "ok"

\* C20: a failed or timed-out sys/ping or sys/info, or a sys/info result that is
\* not an identity, ends deploy_and_start with Handshake; the transport is not
\* returned and is dead; sys/info is not sent after a failed sys/ping.
C20_HandshakeFailureDiscardsTransport ==
    /\ (dpc # "pinging" /\ pc[1] = "done" /\ outcome[1].kind # "Ok") =>
           /\ dres.kind = "Handshake"
           /\ pc[2] = "idle" /\ ~HasOp("info")
    /\ (dpc \notin {"pinging", "infoing"} /\ pc[2] = "done" /\ outcome[2].kind # "Ok") =>
           dres.kind = "Handshake"
    /\ (HasOp("info") /\ ResOf("info") = "ok" /\ infoValue.shape # "object") =>
           dres.kind = "Handshake"
    /\ dres.kind = "Handshake" => ~alive /\ ~dres.transport
    /\ dres.transport =>
           /\ dres.kind = "Ok"
           /\ outcome[1].kind = "Ok" /\ outcome[2].kind = "Ok"
           /\ infoValue.shape = "object"

\* sys/ping timed out and deploy_and_start returned Handshake.
C20_Witness ==
    /\ pc[1] = "done" /\ outcome[1].kind = "Timeout"
    /\ dres.kind = "Handshake"

\* The agent process was started by this attempt.
AgentStarted == HasOp("start") /\ ResOf("start") = "ok"

\* C21, as stated: no step fails once the agent process has been started, so an
\* error is never returned by an attempt that started it.
C21_NoFailureAfterStart == dpc = "failed" => ~AgentStarted

\* C21, amended: an error other than Handshake is returned only by an attempt
\* that did not start the agent process; Handshake is returned only after the
\* start, and the transport is then dropped: it is not alive and its IO task
\* has left its loop or has the wake-up waiting that makes it leave.
C21_OnlyHandshakeFailsAfterStart ==
    dpc = "failed" =>
        /\ AgentStarted <=> dres.kind = "Handshake"
        /\ AgentStarted => /\ ~alive
                           /\ ~dres.transport
                           /\ ioPc = "loop" => shutdown_q = 1

\* The handshake failed after the start while the IO task was still in its loop.
C21_Witness ==
    /\ dpc = "failed" /\ AgentStarted
    /\ ioPc = "loop" /\ outcome[2].kind = "Timeout"

\* The DeployError variant that belongs to the step the log ends with.
VariantOfLastStep ==
    LET last == dlog[Len(dlog)]
    IN CASE last.op = "uname" -> (IF arch = <<>> THEN "ArchDetection" ELSE "UnsupportedArch")
         [] last.op = "lookup" -> "BinaryNotFound"
         [] last.op \in {"mkdir", "chmod"} -> "ExecFailed"
         [] last.op = "read" -> "LocalIo"
         [] last.op = "upload" -> "Upload"
         [] last.op \in {"open", "start"} -> "StartFailed"
         [] OTHER -> "Handshake"

\* The probe is the one step whose failure is not an error of the deployment.
C22_VariantPerStep ==
    /\ dpc = "failed" => dres.kind = VariantOfLastStep
    /\ \A i \in DOMAIN dlog :
           (dlog[i].op # "probe" /\ dlog[i].res = "err") => dpc = "failed" /\ i = Len(dlog)

C22_NoLaterStep == dpc = "failed" => UNCHANGED <<dpc, dlog, dres>>

\* C22: each failing step yields its own DeployError variant (uname failed or
\* empty: ArchDetection; unknown architecture: UnsupportedArch; bundled binary
\* missing: BinaryNotFound; local read: LocalIo; transfer: Upload; mkdir or chmod
\* not executed: ExecFailed; channel open or exec: StartFailed; ping or sys/info:
\* Handshake), and after the error no further step is carried out.
C22_ErrorsAreTerminal == [](C22_VariantPerStep) /\ [][C22_NoLaterStep]_vars

\* The bundled binary was missing and BinaryNotFound was returned.
C22_Witness == dres.kind = "BinaryNotFound" /\ dlog[Len(dlog)].op = "lookup"

\* ------------------------------------------------ claims on the error classes
InSeq(x, q) == \E i \in DOMAIN q : q[i] = x

C23_NothingRegistered ==
    \A c \in Calls :
        outcome[c].kind = "SerializeError" =>
            /\ id[c] \notin DOMAIN pending
            /\ ~InSeq(id[c], write_q) /\ ~InSeq(id[c], written)
            /\ slot[c] = EmptySlot /\ fills[c] = 0

C23_SerializeStep ==
    \A c \in Calls :
        (outcome[c].kind # "SerializeError" /\ outcome'[c].kind = "SerializeError") =>
            /\ alive /\ alive'
            /\ UNCHANGED <<pending, write_q, written, slot, ioPc>>
            /\ \A d \in Calls \ {c} : pc'[d] = pc[d] /\ outcome'[d] = outcome[d]

\* C23: a request that cannot be serialized makes call_with_timeout return
\* SerializeError to that caller alone: no pending entry is registered for it,
\* nothing is enqueued or written, the transport stays alive and the other calls
\* are left as they were.
C23_SerializeErrorIsLocal == [](C23_NothingRegistered) /\ [][C23_SerializeStep]_vars

\* A second call failed to serialize while the first was still pending.
C23_Witness ==
    /\ outcome[2].kind = "SerializeError"
    /\ pc[1] = "waiting" /\ id[1] \in DOMAIN pending /\ alive

\* A call-level failure: the call returned the error of a response, or timed out.
CallLevelFailure(o) == (o.kind = "RpcError" /\ FromResponse(o)) \/ o.kind = "Timeout"

\* The error a call returned is the one its response line carried.
C24_ErrorPassedThrough ==
    /\ \A c \in Calls :
           (Done(c) /\ outcome[c].kind = "RpcError") =>
               outcome[c].code = slot[c].code /\ outcome[c].rid = slot[c].rid
    /\ ioPc = "loop" =>
           \A line \in RespLines :
               (line.id \in DOMAIN pending /\ line.sh \in {"error", "both"}
                    /\ slot[pending[line.id]].st = "empty") =>
                   LET st == ProcessLines(IoState, <<line>>)
                   IN /\ st.slot[pending[line.id]].st = "err"
                      /\ st.slot[pending[line.id]].code = LineCode(line)
                      /\ st.slot[pending[line.id]].rid = line.id

\* The step in which a call returns a call-level failure, and the step in which
\* the IO task hands a response's error to a call, touch that call only.
C24_FailureStep ==
    \A c \in Calls :
        (\/ ~Done(c) /\ pc'[c] = "done" /\ CallLevelFailure(outcome'[c])
         \/ slot[c].st = "empty" /\ slot'[c].st = "err" /\ FromResponse(slot'[c])) =>
            /\ alive' = alive
            /\ ioPc' = ioPc
            /\ UNCHANGED <<write_q, written>>
            /\ \A d \in Calls \ {c} :
                   /\ pc'[d] = pc[d] /\ outcome'[d] = outcome[d] /\ slot'[d] = slot[d]
                   /\ (id[d] \in DOMAIN pending') <=> (id[d] \in DOMAIN pending)

\* C24: a remote RPC error or a timeout is reported to the call it belongs to
\* and to no other, the error's code as the response carried it; the transport
\* stays alive and the pending entries and results of the other calls are not
\* touched.
C24_CallLevelFailureIsLocal == [](C24_ErrorPassedThrough) /\ [][C24_FailureStep]_vars

\* One call timed out and another returned the agent's internal-error response,
\* with the transport alive.
C24_Witness ==
    /\ alive
    /\ outcome[1].kind = "Timeout"
    /\ outcome[2].kind = "RpcError" /\ outcome[2].code = ERR_INTERNAL /\ FromResponse(outcome[2])

\* The request lines handed to the channel or still queued for it, oldest first.
Outgoing == written \o write_q

C25_NothingLost ==
    /\ Len(write_q) <= WriteCap
    /\ \A i, j \in DOMAIN Outgoing : Outgoing[i] = Outgoing[j] => i = j
    /\ \A c \in Calls : (alive /\ pc[c] = "waiting") => InSeq(id[c], Outgoing)

C25_QueueStep ==
    \/ UNCHANGED <<write_q, written>>
    \/ /\ \E c \in Calls : pc[c] = "inserted" /\ pc'[c] = "waiting"
                           /\ write_q' = Append(write_q, id[c])
       /\ Len(write_q) < WriteCap
       /\ written' = written
    \/ /\ write_q # <<>>
       /\ write_q' = Tail(write_q)
       /\ \/ written' = Append(written, Head(write_q)) /\ alive' = alive
          \/ written' = written /\ ~alive'

SessionStates == {"Disconnected", "Connecting", "Connected", "Disconnecting", "Error"}
ErrorTexts == {"refused", "timeout"}

besideSession == <<transportVars, deployVars, codecVars, profilerVars, lineVars, mutexVars, dropped>>

\* What an operation returned: Ok, or InvalidTransition { from, to }.
ReturnedOk(op) == [op |-> op, result |-> "Ok", from |-> state, to |-> state']
InvalidTransition(op, to) ==
    [op |-> op, result |-> "InvalidTransition", from |-> state, to |-> to]

\* transition_to
TransitionTo(new_state) ==
    /\ transition_count < MaxTransitions
    /\ state' = new_state
    /\ transition_count' = transition_count + 1

\* The Err arm of a guarded transition: nothing is written.
Rejected(op, to) ==
    /\ sres' = InvalidTransition(op, to)
    /\ UNCHANGED <<state, error_message, transition_count>>

\* Mutant: start_connecting without `self.error_message = None`.
StartConnectingKeepsMessage ==
    /\ IF state \in {"Disconnected", "Error"}
       THEN /\ TransitionTo("Connecting")
            /\ sres' = ReturnedOk("start_connecting")
            /\ UNCHANGED error_message
       ELSE Rejected("start_connecting", "Connecting")
    /\ UNCHANGED besideSession

StartConnecting ==
    /\ IF state \in {"Disconnected", "Error"}
       THEN /\ TransitionTo("Connecting")
            /\ error_message' = "none"
            /\ sres' = ReturnedOk("start_connecting")
       ELSE Rejected("start_connecting", "Connecting")
    /\ UNCHANGED besideSession

\* Mutant: connect_success without the match on the current state.
ConnectSuccessUnguarded ==
    /\ TransitionTo("Connected")
    /\ sres' = ReturnedOk("connect_success")
    /\ UNCHANGED error_message
    /\ UNCHANGED besideSession

ConnectSuccess ==
    /\ IF state = "Connecting"
       THEN /\ TransitionTo("Connected")
            /\ sres' = ReturnedOk("connect_success")
            /\ UNCHANGED error_message
       ELSE Rejected("connect_success", "Connected")
    /\ UNCHANGED besideSession

ConnectFailed(error) ==
    /\ IF state = "Connecting"
       THEN /\ TransitionTo("Error")
            /\ error_message' = error
            /\ sres' = ReturnedOk("connect_failed")
       ELSE Rejected("connect_failed", "Error")
    /\ UNCHANGED besideSession

StartDisconnecting ==
    /\ IF state \in {"Connected", "Connecting"}
       THEN /\ TransitionTo("Disconnecting")
            /\ sres' = ReturnedOk("start_disconnecting")
            /\ UNCHANGED error_message
       ELSE Rejected("start_disconnecting", "Disconnecting")
    /\ UNCHANGED besideSession

DisconnectComplete ==
    /\ IF state \in {"Disconnecting", "Connected"}
       THEN /\ TransitionTo("Disconnected")
            /\ sres' = ReturnedOk("disconnect_complete")
            /\ UNCHANGED error_message
       ELSE Rejected("disconnect_complete", "Disconnected")
    /\ UNCHANGED besideSession

SetError(error) ==
    /\ TransitionTo("Error")
    /\ error_message' = error
    /\ sres' = ReturnedOk("set_error")
    /\ UNCHANGED besideSession

Reset ==
    /\ TransitionTo("Disconnected")
    /\ error_message' = "none"
    /\ sres' = ReturnedOk("reset")
    /\ UNCHANGED besideSession

NextSession ==
    \/ StartConnecting
    \/ ConnectSuccess
    \/ \E error \in ErrorTexts : ConnectFailed(error)
    \/ StartDisconnecting
    \/ DisconnectComplete
    \/ \E error \in ErrorTexts : SetError(error)
    \/ Reset

SpecSession == Init /\ [][NextSession]_vars

\* ------------------------------------------ claims on SessionStateMachine
\* The source states the module's diagram and the tests give each guarded
\* transition, and the state it leads to.
GuardedOps ==
    {"start_connecting", "connect_success", "connect_failed", "start_disconnecting",
     "disconnect_complete"}
SourcesOf(op) ==
    CASE op = "start_connecting" -> {"Disconnected", "Error"}
      [] op = "connect_success" -> {"Connecting"}
      [] op = "connect_failed" -> {"Connecting"}
      [] op = "start_disconnecting" -> {"Connected", "Connecting"}
      [] OTHER -> {"Disconnecting", "Connected"}
TargetOf(op) ==
    CASE op = "start_connecting" -> "Connecting"
      [] op = "connect_success" -> "Connected"
      [] op = "connect_failed" -> "Error"
      [] op = "start_disconnecting" -> "Disconnecting"
      [] OTHER -> "Disconnected"

C26_GuardedStep ==
    (sessionVars' # sessionVars /\ sres'.op \in GuardedOps) =>
        IF state \in SourcesOf(sres'.op)
        THEN /\ sres'.result = "Ok"
             /\ state' = TargetOf(sres'.op)
             /\ transition_count' = transition_count + 1
        ELSE /\ sres'.result = "InvalidTransition"
             /\ sres'.from = state /\ sres'.to = TargetOf(sres'.op)
             /\ UNCHANGED <<state, error_message, transition_count>>

C26_ConnectedOnlyFromConnecting ==
    (state # "Connected" /\ state' = "Connected") =>
        state = "Connecting" /\ sres'.op = "connect_success"

\* C26: a guarded transition invoked from a state outside its source set returns
\* InvalidTransition and changes neither the state, the error message nor the
\* transition count; Connected is entered only by connect_success from
\* Connecting.
C26_InvalidTransitionRejected ==
    [][C26_GuardedStep /\ C26_ConnectedOnlyFromConnecting]_vars

\* connect_success was rejected in the Error state, after one failed connect.
C26_Witness ==
    /\ sres.op = "connect_success" /\ sres.result = "InvalidTransition"
    /\ state = "Error" /\ error_message = "refused" /\ transition_count = 2

\* C39: after any sequence of operations, error() is Some exactly when state()
\* is Error.
C39_ErrorIffErrorState ==
    (error_message # "none") <=> (state = "Error")

\* A retry after a failed connect: start_connecting left Error and cleared the
\* message.
C39_Witness ==
    /\ sres.op = "start_connecting" /\ sres.result = "Ok"
    /\ state = "Connecting" /\ error_message = "none" /\ transition_count = 3

\* ------------------------------------------------------ Frame, FrameCodec
\* Bytes are the numbers 0..255; a String is the sequence of its code points.
besideCodec == <<transportVars, deployVars, sessionVars, profilerVars, lineVars, mutexVars, dropped>>

Drop(b, n) == SubSeq(b, n + 1, Len(b))
Take(b, n) == SubSeq(b, 1, n)

\* BufMut::put_u16 / put_u32: big-endian.
PutU16(v) == <<v \div 256, v % 256>>
PutU32(v) == <<v \div 16777216, (v \div 65536) % 256, (v \div 256) % 256, v % 256>>

\* Mutant: the two bytes are read low byte first.
GetU16LowFirst(b) == b[2] * 256 + b[1]

\* Buf::get_u16 / get_u32, u32::from_be_bytes.
GetU16(b) == b[1] * 256 + b[2]
GetU32(b) == ((b[1] * 256 + b[2]) * 256 + b[3]) * 256 + b[4]

\* str::as_bytes: UTF-8, for code points below 0x800.
CharBytes(c) == IF c < 128 THEN <<c>> ELSE <<192 + (c \div 64), 128 + (c % 64)>>

RECURSIVE StrBytes(_)
StrBytes(msg) == IF msg = <<>> THEN <<>> ELSE CharBytes(Head(msg)) \o StrBytes(Tail(msg))

\* String::from_utf8_lossy: a byte that begins no valid sequence becomes U+FFFD.
RECURSIVE Utf8Lossy(_)
Utf8Lossy(b) ==
    IF b = <<>>
    THEN <<>>
    ELSE IF b[1] < 128
         THEN <<b[1]>> \o Utf8Lossy(Drop(b, 1))
         ELSE IF b[1] \in 194..223 /\ Len(b) >= 2 /\ b[2] \in 128..191
              THEN <<(b[1] - 192) * 64 + (b[2] - 128)>> \o Utf8Lossy(Drop(b, 2))
              ELSE <<65533>> \o Utf8Lossy(Drop(b, 1))

DataFrame(data) == [kind |-> "Data", data |-> data]
ResizeFrame(cols, rows) == [kind |-> "Resize", cols |-> cols, rows |-> rows]
HeartbeatFrame(seq) == [kind |-> "Heartbeat", seq |-> seq]
ErrorFrame(msg) == [kind |-> "Error", msg |-> msg]

\* MessageType::as_byte
TypeByte(kind) ==
    CASE kind = "Data" -> 0
      [] kind = "Resize" -> 1
      [] kind = "Heartbeat" -> 2
      [] OTHER -> 3

\* Frame::encode. The payload lengths of the model are far below 2^32, where
\* the cast `len() as u32` changes nothing.
Encode(f) ==
    CASE f.kind = "Data" -> <<TypeByte("Data")>> \o PutU32(Len(f.data)) \o f.data
      [] f.kind = "Resize" ->
            <<TypeByte("Resize")>> \o PutU32(4) \o PutU16(f.cols) \o PutU16(f.rows)
      [] f.kind = "Heartbeat" -> <<TypeByte("Heartbeat")>> \o PutU32(4) \o PutU32(f.seq)
      [] OTHER ->
            <<TypeByte("Error")>> \o PutU32(Len(StrBytes(f.msg))) \o StrBytes(f.msg)

NoFrame == [kind |-> "none"]
DecodeNone(buf) == [res |-> "None", frame |-> NoFrame, buf |-> buf]
DecodeErr(buf) == [res |-> "Err", frame |-> NoFrame, buf |-> buf]
DecodeSome(f, buf) == [res |-> "Some", frame |-> f, buf |-> buf]

\* The match on the message type, after the header was consumed.
DecodePayload(msg_type, length, buf) ==
    CASE msg_type = 0 -> DecodeSome(DataFrame(Take(buf, length)), Drop(buf, length))
      [] msg_type = 1 ->
            IF length # 4
            THEN DecodeErr(buf)
            ELSE DecodeSome(ResizeFrame(GetU16(buf), GetU16(Drop(buf, 2))), Drop(buf, 4))
      [] msg_type = 2 ->
            IF length # 4
            THEN DecodeErr(buf)
            ELSE DecodeSome(HeartbeatFrame(GetU32(buf)), Drop(buf, 4))
      [] msg_type = 3 ->
            DecodeSome(ErrorFrame(Utf8Lossy(Take(buf, length))), Drop(buf, length))
      [] OTHER -> DecodeErr(buf)

\* Mutant: the header is consumed as soon as it is complete.
DecodeEagerHeader(buf) ==
    IF Len(buf) < HEADER_SIZE
    THEN DecodeNone(buf)
    ELSE LET length == GetU32(Drop(buf, 1))
         IN IF length > MAX_PAYLOAD_SIZE
            THEN DecodeErr(buf)
            ELSE IF Len(buf) < HEADER_SIZE + length
                 THEN DecodeNone(Drop(buf, HEADER_SIZE))
                 ELSE DecodePayload(buf[1], length, Drop(buf, HEADER_SIZE))

\* Frame::decode: the result and the buffer it leaves.
Decode(buf) ==
    IF Len(buf) < HEADER_SIZE
    THEN DecodeNone(buf)
    ELSE LET length == GetU32(Drop(buf, 1))
         IN IF length > MAX_PAYLOAD_SIZE
            THEN DecodeErr(buf)
            ELSE IF Len(buf) < HEADER_SIZE + length
                 THEN DecodeNone(buf)
                 ELSE DecodePayload(buf[1], length, Drop(buf, HEADER_SIZE))

\* The frames the peer encodes: every kind, with empty and non-empty payloads,
\* multi-byte numbers and a two-byte character.
Frames ==
    {DataFrame(<<>>), DataFrame(<<0, 255>>),
     ResizeFrame(80, 24), ResizeFrame(65535, 256),
     HeartbeatFrame(1), HeartbeatFrame(16909060),
     ErrorFrame(<<>>), ErrorFrame(<<97, 233>>)}

\* The peer encodes a frame onto the stream.
EncodeSend(f) ==
    /\ Len(sent) < MaxFrames
    /\ sent' = Append(sent, f)
    /\ wire' = wire \o Encode(f)
    /\ UNCHANGED <<buffer, decoded, lastDecode, besideCodec>>

\* FrameCodec::feed with the next n bytes of the stream.
Feed(n) ==
    /\ n \in 1..Len(wire)
    /\ buffer' = buffer \o Take(wire, n)
    /\ wire' = Drop(wire, n)
    /\ UNCHANGED <<sent, decoded, lastDecode, besideCodec>>

\* FrameCodec::decode_next
DecodeNext ==
    /\ LET r == Decode(buffer)
       IN /\ buffer' = r.buf
          /\ lastDecode' = [res |-> r.res, consumed |-> Len(buffer) - Len(r.buf)]
          /\ decoded' = IF r.res = "Some" THEN Append(decoded, r.frame) ELSE decoded
    /\ UNCHANGED <<wire, sent, besideCodec>>

NextCodec ==
    \/ \E f \in Frames : EncodeSend(f)
    \/ \E n \in 1..(MaxFrames * 9) : Feed(n)
    \/ DecodeNext

SpecCodec == Init /\ [][NextCodec]_vars

\* --------------------------------------------------- claims on the frames
\* C27: a buffer that holds exactly the encoding of a frame decodes to a frame
\* of the same kind with the same payload, and nothing is left in the buffer.
C27_EncodeDecodeRoundTrip ==
    (sent # <<>> /\ buffer = Encode(sent[Len(sent)])) =>
        /\ Decode(buffer) = DecodeSome(sent[Len(sent)], <<>>)
        /\ Decode(buffer).frame.kind = sent[Len(sent)].kind

\* An Error frame with a two-byte character was encoded, fed whole and decoded.
C27_Witness ==
    /\ sent = <<ErrorFrame(<<97, 233>>)>> /\ decoded = sent
    /\ buffer = <<>> /\ wire = <<>>
    /\ lastDecode = [res |-> "Some", consumed |-> Len(Encode(sent[1]))]

RECURSIVE EncodeAll(_)
EncodeAll(fs) == IF fs = <<>> THEN <<>> ELSE Encode(Head(fs)) \o EncodeAll(Tail(fs))

\* C28: the codec returns the frames that were encoded, in their order; it
\* returns None when the buffer holds no complete frame, and then consumes
\* nothing, so a frame of which only a prefix has arrived is returned once the
\* rest was fed.
C28_StreamDecodesInOrder ==
    /\ IsPrefix(decoded, sent)
    /\ buffer \o wire = EncodeAll(Drop(sent, Len(decoded)))
    /\ lastDecode.res # "Err"
    /\ lastDecode.res = "None" => lastDecode.consumed = 0
    /\ LET k == Len(decoded)
           r == Decode(buffer)
       IN IF k < Len(sent) /\ Len(buffer) >= Len(Encode(sent[k + 1]))
          THEN r = DecodeSome(sent[k + 1], Drop(buffer, Len(Encode(sent[k + 1]))))
          ELSE r = DecodeNone(buffer)

\* The first of two frames was decoded and decode_next then returned None on a
\* buffer that holds only part of the second.
C28_Witness ==
    /\ Len(sent) = 2 /\ decoded = <<sent[1]>>
    /\ lastDecode.res = "None"
    /\ buffer # <<>> /\ wire # <<>>

\* ----------------------------------------------- the codec on any input
\* Frame::decode takes whatever the socket delivered. The bytes of the model
\* spell the headers of Data, Resize and Heartbeat frames and of the unknown
\* type 4, with lengths 0, 1, 2, 4 and lengths above MAX_PAYLOAD_SIZE
\* (01 00 00 01 is 16777217).
RawBytes == {0, 1, 2, 4}

\* The peer writes bytes that no encoder produced.
RawStream ==
    /\ wire = <<>> /\ buffer = <<>> /\ sent = <<>>
    /\ lastDecode.res = "-"
    /\ \E bytes \in SeqsUpTo(RawBytes, MaxRaw) \ {<<>>} : wire' = bytes
    /\ UNCHANGED <<buffer, sent, decoded, lastDecode, besideCodec>>

NextCodecRaw ==
    \/ RawStream
    \/ \E n \in 1..MaxRaw : Feed(n)
    \/ DecodeNext

SpecCodecRaw == Init /\ [][NextCodecRaw]_vars

\* C40: when Frame::decode returns an error the buffer is left as it was before
\* the call: no byte of the offending frame has been consumed.
C40_ErrorConsumesNothing ==
    lastDecode.res = "Err" => lastDecode.consumed = 0

\* ------------------------------------------- ResourceProfiler, sampling_loop
besideProfiler == <<transportVars, deployVars, sessionVars, codecVars, lineVars, mutexVars, dropped>>
portVars == <<prev_ports, is_initial_scan, eventCount, lastEvent, sample_complete>>

\* The listening ports a complete sample can report.
Scans == {{}, {SSH_PORT}, {SSH_PORT, 80}, {80, 8080}}

\* The PortDetectionEvent built from the scan `current` (port numbers only).
PortDiff(current) ==
    [new_ports |-> {p \in current \ prev_ports : p # SSH_PORT /\ p \notin ignored_ports},
     closed_ports |-> prev_ports \ current,
     all_ports |-> current]

\* Mutant: the first complete scan is compared with the empty baseline.
EmitsOnBaseline(current) ==
    /\ current \ prev_ports # {} \/ prev_ports \ current # {}
    /\ PortDiff(current).new_ports # {} \/ PortDiff(current).closed_ports # {}

\* Whether a complete scan makes the loop emit port-detected.
Emits(current) ==
    /\ ~is_initial_scan
    /\ current \ prev_ports # {} \/ prev_ports \ current # {}
    /\ PortDiff(current).new_ports # {} \/ PortDiff(current).closed_ports # {}

\* open_shell_channel before the loop; on failure the function returns.
POpenInitial(ok) ==
    /\ ppc = "opening"
    /\ IF ok
       THEN /\ ppc' = "select"
            /\ UNCHANGED <<pstate, lastSource>>
       ELSE /\ pstate' = "Degraded"
            /\ lastSource' = "RttOnly"
            /\ ppc' = "ended"
    /\ UNCHANGED <<consecutive_failures, stop_sent, disconnected, ignored_ports, ticks,
                   portVars, reopen_attempts, besideProfiler>>

\* Mutant: a degraded tick clears the failure count, so sampling is tried again.
PTickDegradedRetries ==
    /\ ppc = "select"
    /\ ticks < MaxTicks
    /\ consecutive_failures >= MAX_CONSECUTIVE_FAILURES
    /\ pstate' = "Degraded"
    /\ lastSource' = "RttOnly"
    /\ ticks' = ticks + 1
    /\ consecutive_failures' = 0
    /\ UNCHANGED <<ppc, stop_sent, disconnected, ignored_ports,
                   portVars, reopen_attempts, besideProfiler>>

\* interval.tick() in degraded mode.
PTickDegraded ==
    /\ ppc = "select"
    /\ ticks < MaxTicks
    /\ consecutive_failures >= MAX_CONSECUTIVE_FAILURES
    /\ pstate' = "Degraded"
    /\ lastSource' = "RttOnly"
    /\ ticks' = ticks + 1
    /\ UNCHANGED <<ppc, consecutive_failures, stop_sent, disconnected, ignored_ports,
                   portVars, reopen_attempts, besideProfiler>>

\* interval.tick(), shell_sample returned Ok(output).
PSampleOk(complete, current) ==
    /\ ppc = "select"
    /\ ticks < MaxTicks
    /\ consecutive_failures < MAX_CONSECUTIVE_FAILURES
    /\ consecutive_failures' = 0
    /\ lastSource' = "Sampled"
    /\ ticks' = ticks + 1
    /\ sample_complete' = complete
    /\ IF ~complete
       THEN UNCHANGED <<prev_ports, is_initial_scan, eventCount, lastEvent>>
       ELSE /\ prev_ports' = current
            /\ is_initial_scan' = FALSE
            /\ IF Emits(current)
               THEN /\ eventCount' = eventCount + 1
                    /\ lastEvent' = PortDiff(current)
               ELSE UNCHANGED <<eventCount, lastEvent>>
    /\ UNCHANGED <<ppc, pstate, stop_sent, disconnected, ignored_ports, reopen_attempts, besideProfiler>>

\* interval.tick(), shell_sample returned Err; the channel is reopened if it can be.
PSampleErr ==
    /\ ppc = "select"
    /\ ticks < MaxTicks
    /\ consecutive_failures < MAX_CONSECUTIVE_FAILURES
    /\ consecutive_failures' = consecutive_failures + 1
    /\ reopen_attempts' = reopen_attempts + 1
    /\ lastSource' = "Failed"
    /\ ticks' = ticks + 1
    /\ UNCHANGED <<ppc, pstate, stop_sent, disconnected, ignored_ports, portVars,
                   besideProfiler>>

\* ResourceProfiler::stop
PStop ==
    /\ ~stop_sent
    /\ stop_sent' = TRUE
    /\ UNCHANGED <<ppc, pstate, consecutive_failures, disconnected, ignored_ports,
                   lastSource, ticks, portVars, reopen_attempts, besideProfiler>>

\* The connection broadcasts its disconnect.
PDisconnect ==
    /\ ~disconnected
    /\ disconnected' = TRUE
    /\ UNCHANGED <<ppc, pstate, consecutive_failures, stop_sent, ignored_ports,
                   lastSource, ticks, portVars, reopen_attempts, besideProfiler>>

\* What follows the loop: the channel is closed, the state becomes Stopped.
AfterLoop ==
    /\ ppc' = "ended"
    /\ pstate' = "Stopped"
    /\ UNCHANGED <<consecutive_failures, stop_sent, disconnected, ignored_ports,
                   lastSource, ticks, portVars, reopen_attempts, besideProfiler>>

\* The select! branch `_ = &mut stop_rx`.
PBreakStop == ppc = "select" /\ stop_sent /\ AfterLoop

\* The select! branch `_ = disconnect_rx.recv()`.
PBreakDisconnect == ppc = "select" /\ disconnected /\ AfterLoop

\* ResourceProfiler::ignore_port
PIgnorePort(p) ==
    /\ p \notin ignored_ports
    /\ ignored_ports' = ignored_ports \cup {p}
    /\ UNCHANGED <<ppc, pstate, consecutive_failures, stop_sent, disconnected,
                   lastSource, ticks, portVars, reopen_attempts, besideProfiler>>

NextProfiler ==
    \/ \E ok \in BOOLEAN : POpenInitial(ok)
    \/ PTickDegraded
    \/ \E complete \in BOOLEAN, current \in Scans : PSampleOk(complete, current)
    \/ PSampleErr
    \/ PStop
    \/ PDisconnect
    \/ PBreakStop
    \/ PBreakDisconnect
    \/ \E p \in {80} : PIgnorePort(p)

SpecProfiler == Init /\ [][NextProfiler]_vars

\* The runtime polls the spawned task: the channel open completes (it is under
\* a timeout) and a ready select! branch is taken.
FairProfiler ==
    /\ WF_vars(\E ok \in BOOLEAN : POpenInitial(ok))
    /\ WF_vars(PBreakStop)
    /\ WF_vars(PBreakDisconnect)

SpecProfilerLive == Init /\ [][NextProfiler]_vars /\ FairProfiler

\* -------------------------------------------------- claims on the profiler
\* C29: whenever the connection disconnects or stop() is called, the sampling
\* task ends and the profiler state becomes Stopped, whatever the state was,
\* Degraded after a failed initial channel open included.
C29_StopLeadsToStopped ==
    (stop_sent \/ disconnected) ~> (ppc = "ended" /\ pstate = "Stopped")

\* C30 (step): the first complete scan only sets the baseline, a truncated
\* sample changes neither the baseline nor the events, and an event carries
\* the difference between the previous complete scan and this one.
C30_ScanStep ==
    /\ (is_initial_scan /\ ~is_initial_scan') =>
            /\ eventCount' = eventCount /\ lastEvent' = lastEvent
            /\ sample_complete'
    /\ (ticks' # ticks /\ lastSource' = "Sampled" /\ ~sample_complete') =>
            UNCHANGED <<prev_ports, is_initial_scan, eventCount, lastEvent>>
    /\ eventCount' # eventCount =>
            /\ ~is_initial_scan /\ sample_complete'
            /\ eventCount' = eventCount + 1
            /\ lastEvent'.all_ports = prev_ports'
            /\ lastEvent'.new_ports \subseteq prev_ports' \ prev_ports
            /\ lastEvent'.closed_ports = prev_ports \ prev_ports'
            /\ lastEvent'.new_ports # {} \/ lastEvent'.closed_ports # {}
    /\ prev_ports' # prev_ports => sample_complete'

\* C30: no port-detected event before the baseline exists, and every step of
\* the sampling loop treats the scan as above.
C30_FirstScanSilent ==
    /\ [](is_initial_scan => eventCount = 0)
    /\ [][C30_ScanStep]_vars

\* The baseline was {22, 80}; the next complete scan {80, 8080} was reported
\* as one event, and the truncated sample after it changed nothing.
C30_Witness ==
    /\ ~is_initial_scan /\ eventCount = 1
    /\ lastEvent = [new_ports |-> {8080}, closed_ports |-> {SSH_PORT},
                    all_ports |-> {80, 8080}]
    /\ prev_ports = {80, 8080}
    /\ ticks = 3 /\ lastSource = "Sampled" /\ ~sample_complete

\* ------------------------------------------ the IO task's buffer, in bytes
\* The bytes stdout carries: newline, space, 'a', and the two bytes of U+00E9.
StdoutBytes == {LF, 32, 97, 195, 169}

\* char::is_whitespace, for the characters that occur inside a line.
LineWhitespace == {32, 9, 13}

\* str::trim on a sequence of code points.
RECURSIVE TrimLineStart(_)
TrimLineStart(s) ==
    IF s # <<>> /\ Head(s) \in LineWhitespace THEN TrimLineStart(Tail(s)) ELSE s

RECURSIVE TrimLineEnd(_)
TrimLineEnd(s) ==
    IF s # <<>> /\ s[Len(s)] \in LineWhitespace
    THEN TrimLineEnd(SubSeq(s, 1, Len(s) - 1))
    ELSE s

TrimLine(s) == TrimLineEnd(TrimLineStart(s))

\* buffer.find('\n'): the position of the first newline, 0 for None.
FindNewline(s) ==
    IF \E i \in 1..Len(s) : s[i] = LF
    THEN CHOOSE i \in 1..Len(s) : s[i] = LF /\ \A j \in 1..(i - 1) : s[j] # LF
    ELSE 0

\* The while loop: each complete line is cut off the front of the buffer and
\* trimmed; an empty one is skipped, the others go to the parser in order.
RECURSIVE ExtractLines(_, _)
ExtractLines(buf, out) ==
    IF FindNewline(buf) = 0
    THEN [buffer |-> buf, lines |-> out]
    ELSE LET pos == FindNewline(buf)
             line == TrimLine(SubSeq(buf, 1, pos - 1))
         IN ExtractLines(SubSeq(buf, pos + 1, Len(buf)),
                         IF line = <<>> THEN out ELSE Append(out, line))

\* ChannelMsg::Data { data }: buffer.push_str(&String::from_utf8_lossy(&data)),
\* then the while loop.
ChannelData(data) ==
    /\ data # <<>>
    /\ Len(delivered) + Len(data) <= MaxBytes
    /\ delivered' = delivered \o data
    /\ LET r == ExtractLines(line_buffer \o Utf8Lossy(data), <<>>)
       IN /\ line_buffer' = r.buffer
          /\ extracted' = extracted \o r.lines
    /\ UNCHANGED <<transportVars, deployVars, sessionVars, codecVars, profilerVars, mutexVars,
                   dropped>>

NextLines == \E data \in SeqsUpTo(StdoutBytes, MaxBytes) : ChannelData(data)

SpecLines == Init /\ [][NextLines]_vars

\* C31: the lines the IO task extracts, and what it keeps buffered, depend only
\* on the concatenated byte stream: they are what one Data event carrying all
\* the bytes delivered so far would have produced.
C31_SplitIndependent ==
    /\ extracted = ExtractLines(Utf8Lossy(delivered), <<>>).lines
    /\ line_buffer = ExtractLines(Utf8Lossy(delivered), <<>>).buffer

\* ------------------------------------------------- the pending-map mutex
\* call_with_timeout and the IO task at the granularity of the mutex: a task
\* waits in lock().await until nobody holds the guard, and the guard is released
\* where it goes out of scope.
besideMutex ==
    <<transportVars, deployVars, sessionVars, codecVars, profilerVars, lineVars, dropped>>

\* self.pending.lock().await, before the insert and in the timeout arm.
MLock(c) ==
    /\ mpc[c] \in {"start", "cleanup"}
    /\ holder = {}
    /\ holder' = {c}
    /\ mpc' = [mpc EXCEPT ![c] = IF mpc[c] = "start" THEN "insert" ELSE "remove"]
    /\ UNCHANGED <<mio, mtarget, mmap, mgot, besideMutex>>

\* Mutant: the guard taken for the insert lives until the call returns.
MInsertKeepsGuard(c) ==
    /\ mpc[c] = "insert"
    /\ mmap' = mmap \cup {c}
    /\ mpc' = [mpc EXCEPT ![c] = "send"]
    /\ UNCHANGED <<holder, mio, mtarget, mgot, besideMutex>>

\* pending.insert(id, tx); the block ends and the guard is dropped.
MInsert(c) ==
    /\ mpc[c] = "insert"
    /\ c \in holder
    /\ mmap' = mmap \cup {c}
    /\ holder' = holder \ {c}
    /\ mpc' = [mpc EXCEPT ![c] = "send"]
    /\ UNCHANGED <<mio, mtarget, mgot, besideMutex>>

\* write_tx.send(json).await completes: Ok while the IO task lives, else the
\* call returns ChannelClosed.
MSend(c) ==
    /\ mpc[c] = "send"
    /\ mpc' = [mpc EXCEPT ![c] = IF mio = "ended" THEN "done" ELSE "wait"]
    /\ UNCHANGED <<holder, mio, mtarget, mmap, mgot, besideMutex>>

\* timeout(rx) completes with the value sent on the oneshot.
MReceive(c) ==
    /\ mpc[c] = "wait"
    /\ c \in mgot
    /\ mpc' = [mpc EXCEPT ![c] = "done"]
    /\ UNCHANGED <<holder, mio, mtarget, mmap, mgot, besideMutex>>

\* timeout(rx) completes with Err(Elapsed).
MElapsed(c) ==
    /\ mpc[c] = "wait"
    /\ c \notin mgot
    /\ mpc' = [mpc EXCEPT ![c] = "cleanup"]
    /\ UNCHANGED <<holder, mio, mtarget, mmap, mgot, besideMutex>>

\* pending.remove(&id) in the timeout arm; the call returns and the guard is dropped.
MRemove(c) ==
    /\ mpc[c] = "remove"
    /\ c \in holder
    /\ mmap' = mmap \ {c}
    /\ holder' = holder \ {c}
    /\ mpc' = [mpc EXCEPT ![c] = "done"]
    /\ UNCHANGED <<mio, mtarget, mgot, besideMutex>>

\* The IO task has parsed a Response carrying id k.
MIoResponse(k) ==
    /\ mio = "loop"
    /\ mio' = "resp"
    /\ mtarget' = k
    /\ UNCHANGED <<holder, mpc, mmap, mgot, besideMutex>>

\* The loop is left (break) and alive is stored false.
MIoBreak ==
    /\ mio = "loop"
    /\ mio' = "marked"
    /\ UNCHANGED <<holder, mpc, mtarget, mmap, mgot, besideMutex>>

\* pending_r.lock().await, in the Response arm and before the drain.
MIoLock ==
    /\ mio \in {"resp", "marked"}
    /\ holder = {}
    /\ holder' = {0}
    /\ mio' = IF mio = "resp" THEN "respHeld" ELSE "drainHeld"
    /\ UNCHANGED <<mpc, mtarget, mmap, mgot, besideMutex>>

\* pending.remove(&resp.id) and tx.send(result); the arm ends and the guard is dropped.
MIoRemove ==
    /\ mio = "respHeld"
    /\ 0 \in holder
    /\ mmap' = mmap \ {mtarget}
    /\ mgot' = IF mtarget \in mmap THEN mgot \cup {mtarget} ELSE mgot
    /\ holder' = holder \ {0}
    /\ mio' = "loop"
    /\ UNCHANGED <<mpc, mtarget, besideMutex>>

\* pending.drain() with a send to every entry; the task ends and the guard is dropped.
MIoDrain ==
    /\ mio = "drainHeld"
    /\ 0 \in holder
    /\ mgot' = mgot \cup mmap
    /\ mmap' = {}
    /\ holder' = holder \ {0}
    /\ mio' = "ended"
    /\ UNCHANGED <<mpc, mtarget, besideMutex>>

NextMutex ==
    \/ \E c \in Calls : MLock(c)
    \/ \E c \in Calls : MInsert(c)
    \/ \E c \in Calls : MSend(c)
    \/ \E c \in Calls : MReceive(c)
    \/ \E c \in Calls : MElapsed(c)
    \/ \E c \in Calls : MRemove(c)
    \/ \E k \in Ids : MIoResponse(k)
    \/ MIoBreak
    \/ MIoLock
    \/ MIoRemove
    \/ MIoDrain

SpecMutex == Init /\ [][NextMutex]_vars

\* What the holder of the guard does next.
Release(t) == IF t = 0 THEN MIoRemove \/ MIoDrain ELSE MInsert(t) \/ MRemove(t)

\* C32: the guard of the pending map is held by one task at a time and only
\* for a single insert, remove or drain: its holder is never suspended in the
\* queue send or in the wait for the response, and its next step, which
\* releases the guard, never has to wait for anything.
C32_ShortCriticalSections ==
    /\ Cardinality(holder) <= 1
    /\ \A c \in Calls : c \in holder => mpc[c] \in {"insert", "remove"}
    /\ 0 \in holder => mio \in {"respHeld", "drainHeld"}
    /\ \A t \in holder : ENABLED Release(t)

\* The IO task holds the guard for a response while one caller waits for its
\* own response and the other waits for the mutex.
C32_Witness ==
    /\ holder = {0} /\ mio = "respHeld"
    /\ mpc[1] = "wait" /\ 1 \in mmap
    /\ mpc[2] = "start"

\* C33 (step): in degraded mode a tick emits RttOnly metrics and neither
\* samples nor reopens the channel; only a successful sample clears the
\* failure count; a failed sample adds one to it and makes one reopen attempt;
\* the loop turns Degraded at a tick that finds the count at the maximum.
C33_TickStep ==
    /\ consecutive_failures >= MAX_CONSECUTIVE_FAILURES =>
            /\ consecutive_failures' = consecutive_failures
            /\ reopen_attempts' = reopen_attempts
            /\ lastSource' \in {lastSource, "RttOnly"}
            /\ ticks' # ticks => pstate' = "Degraded" /\ lastSource' = "RttOnly"
    /\ ticks' # ticks =>
            CASE lastSource' = "Sampled" ->
                    consecutive_failures' = 0 /\ reopen_attempts' = reopen_attempts
              [] lastSource' = "Failed" ->
                    /\ consecutive_failures' = consecutive_failures + 1
                    /\ reopen_attempts' = reopen_attempts + 1
              [] OTHER -> consecutive_failures = MAX_CONSECUTIVE_FAILURES
    /\ ticks' = ticks => UNCHANGED <<consecutive_failures, reopen_attempts>>
    /\ (ppc = "select" /\ pstate = "Running" /\ pstate' = "Degraded") =>
            consecutive_failures = MAX_CONSECUTIVE_FAILURES /\ ticks' = ticks + 1
    /\ (pstate = "Degraded" /\ pstate' # "Degraded") =>
            pstate' = "Stopped" /\ (stop_sent \/ disconnected)

\* C33: inside the loop the profiler is Degraded only with three consecutive
\* failures behind it, and every step treats the failure count as above.
C33_DegradedAfterThreeFailures ==
    /\ []((ppc = "select" /\ pstate = "Degraded") =>
              consecutive_failures = MAX_CONSECUTIVE_FAILURES)
    /\ [](consecutive_failures <= MAX_CONSECUTIVE_FAILURES)
    /\ [][C33_TickStep]_vars

\* Three failed samples, each with its reopen attempt, then two degraded ticks.
C33_Witness ==
    /\ ppc = "select" /\ pstate = "Degraded"
    /\ consecutive_failures = MAX_CONSECUTIVE_FAILURES
    /\ reopen_attempts = 3 /\ ticks = 5
    /\ lastSource = "RttOnly"

\* --------------------------------------- claims on the pending map's entries
\* C34: a request that was handed to the IO task belongs to a call that has
\* passed its insert, and while that call waits with nothing received yet its
\* entry is in the map, so the response with its id is delivered to it and not
\* dropped as unknown.
C34_RegisteredBeforeHandedOver ==
    /\ \A i \in DOMAIN Outgoing :
           \E c \in Calls : id[c] = Outgoing[i] /\ pc[c] \in {"waiting", "timedout", "done"}
    /\ \A c \in Calls :
           (InSeq(id[c], Outgoing) /\ pc[c] = "waiting" /\ slot[c] = EmptySlot /\ ioPc = "loop") =>
               /\ id[c] \in DOMAIN pending /\ pending[id[c]] = c
               /\ ProcessLine(IoState, [t |-> "resp", id |-> id[c], sh |-> "result"]).slot[c]
                      = OkValue(id[c])

\* The request of call 1 was written and the response that came for it was
\* delivered; no line has been dropped.
C34_Witness ==
    /\ written = <<id[1]>> /\ pc[1] = "done"
    /\ outcome[1].kind = "Ok" /\ outcome[1].rid = id[1]
    /\ lastSkip = "none" /\ ioPc = "loop"

\* C35: a call that has returned has no entry in the pending map, and once
\* every call has returned and the IO task has ended the map is empty.
C35_NoEntryAfterReturn ==
    /\ \A c \in Calls : pc[c] = "done" => id[c] \notin DOMAIN pending
    /\ ((\A c \in Calls : pc[c] = "done") /\ ioPc = "ended") => pending = EmptyMap

\* C36: no call is left waiting on an empty oneshot once the IO task has
\* drained the map: a call that raced with the termination has either been
\* failed by the drain or fails at the queue.
C36_NoCallStrandedAfterDrain ==
    \A c \in Calls :
        (pc[c] = "waiting" /\ ioPc \in {"drained", "ended"}) => slot[c] # EmptySlot

\* C37: watch events that nobody reads do not stall the IO task: whenever it
\* is suspended in the send of a notification it gets back to its select, where
\* responses, outgoing requests and the shutdown signal are handled.
C37_NotificationsDoNotStall == (ioPc = "sendWatch") ~> (ioPc # "sendWatch")

\* ------------------------------------------------ dropping the transport
\* A transport in the hands of its owner: one caller, the takers and the
\* consumer of the watch receiver, and a remote side that sends responses,
\* garbage and watch events, one line per Data event. The owner makes no call
\* and takes nothing once it has dropped the transport.
besideHandle == <<deployVars, sessionVars, codecVars, profilerVars, lineVars, mutexVars>>

OwnerCall == ~dropped /\ CallActions(1)

OwnerTake == ~dropped /\ \E t \in Takers : TakeWatchRx(t)

\* The owner drops the AgentTransport while the IO task runs. No call is in
\* progress: a call borrows the transport.
DropHandle ==
    /\ ~dropped
    /\ alive
    /\ pc[1] \in {"idle", "done"}
    /\ dropped' = TRUE
    /\ DropTransport
    /\ UNCHANGED besideHandle

\* watch_tx.send(event).await, suspended on the full queue, returns Err once
\* the receiver has been dropped; the while loop goes on with the buffered lines.
IoSendWatchClosed ==
    /\ ioPc = "sendWatch"
    /\ RxGone
    /\ UNCHANGED <<alive, nextId, pc, id, outcome, write_q, written, watch_rx, watch_taken,
                   takeRes, received, shutdown_q, signalled, atDeath, takenAt, deployVars,
                   besideAgent>>
    /\ IoCommit(ProcessLines(IoState, rest))

NextDrop ==
    \/ OwnerCall
    \/ OwnerTake
    \/ ConsumerRecv
    \/ DropHandle
    \/ \E line \in RpcLines \cup {WatchLine} : IoData(<<line>>)
    \/ IoSendWatch
    \/ IoSendWatchClosed
    \/ \E kind \in {"ExtendedData", "Other"} : IoIgnored(kind)
    \/ IoTermination

\* Scheduled fairly: the steps of a call in progress and the IO task's own
\* branches and wind-down. The remote side, the owner and the consumer of the
\* watch receiver are under no obligation.
FairDrop ==
    /\ WF_vars(CallProgress(1))
    /\ WF_vars(\E ok \in BOOLEAN : IoWrite(ok))
    /\ WF_vars(IoSendWatch)
    /\ WF_vars(IoSendWatchClosed)
    /\ WF_vars(IoShutdown)
    /\ WF_vars(IoDrain)
    /\ WF_vars(IoEnd)

SpecDrop == Init /\ [][NextDrop]_vars /\ FairDrop

\* C38: once the AgentTransport is dropped it is no longer alive, and the IO
\* task eventually leaves its loop and ends, releasing the channel.
C38_DropEndsIoTask ==
    /\ [](dropped => ~alive)
    /\ dropped ~> (ioPc = "ended")

====
